---------------------------- MODULE Spec2Model ----------------------------
(***************************************************************************)
(* Model of the hdmi-cec library: the CecMonitor line engine and packet    *)
(* codec, the Commander's request/response correlation and pressButton,    *)
(* the Remote's key decoders, emitLines with the monitor's `line`         *)
(* listener, the legacy NodeCec (start, stop, send, sendCommand and its    *)
(* line engine), and the monitor's send, sendCommand, stop and the close   *)
(* of its child process.                                                   *)
(*                                                                         *)
(* Text is modelled as a sequence of one-character strings, so indexOf,    *)
(* substr, split, parseInt, toString(16) and the regular expressions are   *)
(* computed character by character, as the JavaScript code computes them.  *)
(* JavaScript indices are 0-based; Sequences are 1-based.                  *)
(***************************************************************************)
EXTENDS Integers, Sequences, FiniteSets, TLC

(***************************************************************************)
(* Bounds of the model.                                                    *)
(***************************************************************************)
\* Number of getPowerState calls made in one behaviour.
MaxQueries == 2
\* Milliseconds of wall-clock time that pass in one Tick step.
TickMs == 2500
\* Number of key lines the Remotes decode in one behaviour, a line counted
\* once for each Remote that decodes it.
MaxKeyLines == 4
\* Number of characters a stream carries before it ends.
MaxStream == 4
\* Number of Remotes constructed over one monitor.
MaxRemotes == 2
\* Number of times start() is called on one NodeCec.
MaxStarts == 2
\* Number of parameters handed to executeOperation.
MaxParams == 2
\* Number of characters of the string handed to executeOperationWithString.
MaxText == 2

(***************************************************************************)
(* JavaScript values.                                                      *)
(***************************************************************************)
\* A number is an integer of 32 bits, or NaN (a result of parseInt), which is
\* no integer.
NaN == "NaN"
\* The value is NaN.  (An integer and NaN cannot be compared with =; their
\* printed forms can.)
IsNaN(x) == ToString(x) = ToString(NaN)
\* A value that may be undefined (a read past the end of an array, a promise
\* not resolved) is the sequence of the number it holds: none for undefined.
Undefined == <<>>
Defined(n) == <<n>>

\* What the build makes of a `let` declaration: the TypeScript compiler keeps
\* it for a target of ES2015 or later and writes `var` for ES5 or ES3.  The
\* sources name no target.
LetKept == "let"
LetAsVar == "var"
Builds == {LetKept, LetAsVar}

\* a === b on numbers: NaN is equal to nothing, itself included.
StrictEq(a, b) == ~IsNaN(a) /\ ~IsNaN(b) /\ a = b

Min(S) == CHOOSE i \in S : \A j \in S : i <= j

\* ToInt32 of a number: NaN becomes 0.
ToInt32(x) == IF IsNaN(x) THEN 0 ELSE x

\* The bit of weight w of the bytes x and y, or-ed.
OrBit(x, y, w) == IF (x \div w) % 2 = 1 \/ (y \div w) % 2 = 1 THEN 1 ELSE 0

\* x | y on two bytes.
ByteOr(x, y) ==
    OrBit(x, y, 1) + 2 * OrBit(x, y, 2) + 4 * OrBit(x, y, 4) + 8 * OrBit(x, y, 8)
    + 16 * OrBit(x, y, 16) + 32 * OrBit(x, y, 32) + 64 * OrBit(x, y, 64)
    + 128 * OrBit(x, y, 128)

\* The byte at a scale (256^n) of an integer in two's complement (% and \div round down).
ByteOf(x, scale) == (x \div scale) % 256

\* The byte t read as a signed byte.
SignedByte(t) == IF t >= 128 THEN t - 256 ELSE t

\* a | b on integers of 32 bits in two's complement: byte by byte, the top
\* byte carrying the sign.
BitOr(a, b) ==
    SignedByte(ByteOr(ByteOf(a, 16777216), ByteOf(b, 16777216))) * 16777216
    + 65536 * ByteOr(ByteOf(a, 65536), ByteOf(b, 65536))
    + 256 * ByteOr(ByteOf(a, 256), ByteOf(b, 256))
    + ByteOr(ByteOf(a, 1), ByteOf(b, 1))

\* x << 8: the low 24 bits of x move up, and bit 23 becomes the sign.
ShiftLeft8(x) ==
    LET low == ToInt32(x) % 16777216
    IN  IF low >= 8388608 THEN (low - 16777216) * 256 ELSE low * 256

\* (hi << 8) | lo, as the decoders of physical addresses compute it.
ShiftOr(hi, lo) == BitOr(ShiftLeft8(hi), ToInt32(lo))

(***************************************************************************)
(* Character classes.                                                      *)
(***************************************************************************)
Digits == {"0", "1", "2", "3", "4", "5", "6", "7", "8", "9"}
LowerHex == {"a", "b", "c", "d", "e", "f"}
UpperHex == {"A", "B", "C", "D", "E", "F"}
HexDigits == Digits \cup LowerHex \cup UpperHex
Letters ==
    {"a", "b", "c", "d", "e", "f", "g", "h", "i", "j", "k", "l", "m",
     "n", "o", "p", "q", "r", "s", "t", "u", "v", "w", "x", "y", "z",
     "A", "B", "C", "D", "E", "F", "G", "H", "I", "J", "K", "L", "M",
     "N", "O", "P", "Q", "R", "S", "T", "U", "V", "W", "X", "Y", "Z"}
\* \w of a regular expression.
WordChars == Letters \cup Digits \cup {"_"}
\* White space that parseInt skips, 25 characters: space, tab, line feed,
\* carriage return, form feed, vertical tab (U+000B), and the characters
\* outside ASCII, which a text here holds by the name of their code point.
WhiteSpace ==
    {" ", "\t", "\n", "\r", "\f", "",
     "U+00A0", "U+1680", "U+2000", "U+2001", "U+2002", "U+2003", "U+2004",
     "U+2005", "U+2006", "U+2007", "U+2008", "U+2009", "U+200A", "U+2028",
     "U+2029", "U+202F", "U+205F", "U+3000", "U+FEFF"}

\* The value of a hex digit.
HexVal(c) ==
    CASE c = "0" -> 0 [] c = "1" -> 1 [] c = "2" -> 2 [] c = "3" -> 3
      [] c = "4" -> 4 [] c = "5" -> 5 [] c = "6" -> 6 [] c = "7" -> 7
      [] c = "8" -> 8 [] c = "9" -> 9
      [] c \in {"a", "A"} -> 10 [] c \in {"b", "B"} -> 11
      [] c \in {"c", "C"} -> 12 [] c \in {"d", "D"} -> 13
      [] c \in {"e", "E"} -> 14 [] c \in {"f", "F"} -> 15

\* The lower-case hex digit of a value in 0..15.
HexChar(v) ==
    <<"0", "1", "2", "3", "4", "5", "6", "7",
      "8", "9", "a", "b", "c", "d", "e", "f">>[v + 1]

(***************************************************************************)
(* String operations.                                                      *)
(***************************************************************************)
\* s.indexOf(pat): the first 0-based position of pat in s, -1 when absent.
IndexOf(s, pat) ==
    LET at == {i \in 0..(Len(s) - Len(pat)) : SubSeq(s, i + 1, i + Len(pat)) = pat}
    IN  IF at = {} THEN -1 ELSE Min(at)

\* s.substr(start) for start >= 0: the rest of s from 0-based position start.
Substr(s, start) == SubSeq(s, start + 1, Len(s))

RECURSIVE Split(_, _)
\* s.split(sep) for a one-character separator: at least one token.
Split(s, sep) ==
    LET i == IndexOf(s, <<sep>>)
    IN  IF i < 0 THEN <<s>>
        ELSE <<SubSeq(s, 1, i)>> \o Split(Substr(s, i + 1), sep)

RECURSIVE SkipWhile(_, _)
\* s without its longest prefix of characters of class.
SkipWhile(s, class) ==
    IF s # <<>> /\ s[1] \in class THEN SkipWhile(Tail(s), class) ELSE s

RECURSIVE TakeWhile(_, _)
\* The longest prefix of s of characters of class.
TakeWhile(s, class) ==
    IF s # <<>> /\ s[1] \in class THEN <<s[1]>> \o TakeWhile(Tail(s), class) ELSE <<>>

RECURSIVE HexNumber(_)
\* The value of a sequence of hex digits.
HexNumber(ds) ==
    IF ds = <<>> THEN 0
    ELSE 16 * HexNumber(SubSeq(ds, 1, Len(ds) - 1)) + HexVal(ds[Len(ds)])

RECURSIVE NegHexNumber(_)
\* The value of a sequence of hex digits after a minus sign.
NegHexNumber(ds) ==
    IF ds = <<>> THEN 0
    ELSE 16 * NegHexNumber(SubSeq(ds, 1, Len(ds) - 1)) - HexVal(ds[Len(ds)])

\* parseInt(s, 16): skips white space, reads a sign and a 0x prefix, then the
\* longest run of hex digits; NaN when there is none.  Defined for a value
\* from -2^31 to 2^31 - 1: every token of the lines here has at most two hex
\* digits.
ParseInt16(s) ==
    LET t == SkipWhile(s, WhiteSpace)
        neg == t # <<>> /\ t[1] = "-"
        u == IF t # <<>> /\ t[1] \in {"-", "+"} THEN Tail(t) ELSE t
        v == IF Len(u) >= 2 /\ u[1] = "0" /\ u[2] \in {"x", "X"}
             THEN SubSeq(u, 3, Len(u)) ELSE u
        ds == TakeWhile(v, HexDigits)
    IN  IF ds = <<>> THEN NaN
        ELSE IF neg THEN NegHexNumber(ds) ELSE HexNumber(ds)

\* The text of the value undefined, which parseInt reads when handed a
\* character that is not there.
UndefinedText == <<"u", "n", "d", "e", "f", "i", "n", "e", "d">>

\* parseInt(s[i], 16) for a 0-based position i.
ParseIntAt(s, i) ==
    IF i < Len(s) THEN ParseInt16(<<s[i + 1]>>) ELSE ParseInt16(UndefinedText)

RECURSIVE NatToString16(_)
\* n.toString(16) for n >= 0.
NatToString16(n) ==
    IF n < 16 THEN <<HexChar(n)>>
    ELSE NatToString16(n \div 16) \o <<HexChar(n % 16)>>

RECURSIVE NegToString16(_)
\* The hex digits of the magnitude of n, for n < 0 (-n may be 2^31).
NegToString16(n) ==
    LET d == (16 - (n % 16)) % 16
        rest == (n + d) \div 16
    IN  IF rest = 0 THEN <<HexChar(d)>> ELSE NegToString16(rest) \o <<HexChar(d)>>

\* n.toString(16): lower-case hex digits, a minus sign for a negative number.
ToString16(n) ==
    IF IsNaN(n) THEN <<"N", "a", "N">>
    ELSE IF n < 0 THEN <<"-">> \o NegToString16(n)
    ELSE NatToString16(n)

RECURSIVE Join(_, _)
\* parts.join(sep).
Join(parts, sep) ==
    IF parts = <<>> THEN <<>>
    ELSE IF Len(parts) = 1 THEN parts[1]
    ELSE parts[1] \o sep \o Join(Tail(parts), sep)


(***************************************************************************)
(* Regular expressions.  A pattern is a sequence of items: a literal text,  *)
(* one character of a class, or one or more characters of a class.  In the  *)
(* patterns of this program no class contains the character that follows    *)
(* it, so the greedy match is the only match.                               *)
(***************************************************************************)
Lit(text) == [kind |-> "lit", text |-> text, class |-> {}]
One(class) == [kind |-> "one", text |-> <<>>, class |-> class]
Plus(class) == [kind |-> "plus", text |-> <<>>, class |-> class]

RECURSIVE MatchItems(_, _, _)
\* The 0-based position after the match of items in s from position pos,
\* -1 when s does not match there.
MatchItems(s, pos, items) ==
    IF items = <<>> THEN pos
    ELSE LET it == items[1]
             rest == Substr(s, pos)
         IN  CASE it.kind = "lit" ->
                    IF Len(rest) >= Len(it.text) /\ SubSeq(rest, 1, Len(it.text)) = it.text
                    THEN MatchItems(s, pos + Len(it.text), Tail(items))
                    ELSE -1
               [] it.kind = "one" ->
                    IF rest # <<>> /\ rest[1] \in it.class
                    THEN MatchItems(s, pos + 1, Tail(items))
                    ELSE -1
               [] it.kind = "plus" ->
                    LET run == TakeWhile(rest, it.class)
                    IN  IF run # <<>>
                        THEN MatchItems(s, pos + Len(run), Tail(items))
                        ELSE -1

\* regexp.exec(s) of a pattern anchored with ^ and flagged g, started with the
\* given lastIndex: it matches only from position 0.  The result is the end of
\* the match, which is also the regexp's next lastIndex; -1 when exec returns
\* null (lastIndex then becomes 0).
ExecAnchored(items, s, lastIndex) ==
    IF lastIndex # 0 THEN -1 ELSE MatchItems(s, 0, items)

\* s.match(regexp) of such a pattern finds something: match starts from
\* lastIndex 0 whatever the regexp's lastIndex was, and leaves it 0.
MatchesAnchored(items, s) == MatchItems(s, 0, items) >= 0

TrafficText == <<"T", "R", "A", "F", "F", "I", "C", ":">>
DebugText == <<"D", "E", "B", "U", "G", ":">>
\* The class [ \[\d\]\t] that follows DEBUG: in the patterns.
StampClass == {" ", "[", "]", "\t"} \cup Digits
AllocateText ==
    <<"A", "l", "l", "o", "c", "a", "t", "e", "L", "o", "g", "i", "c", "a", "l",
      "A", "d", "d", "r", "e", "s", "s", "e", "s", " ", "-", " ",
      "d", "e", "v", "i", "c", "e", " ", "'">>
TypeText == <<"'", ",", " ", "t", "y", "p", "e", " ", "'">>
LaText == <<"'", ",", " ", "L", "A", " ", "'">>
WaitingText ==
    <<"w", "a", "i", "t", "i", "n", "g", " ", "f", "o", "r", " ",
      "i", "n", "p", "u", "t">>

\* /^TRAFFIC:/g
trafficRegexp == <<Lit(TrafficText)>>

\* /^DEBUG:[ \[\d\]\t]+AllocateLogicalAddresses - device '\d', type '[\w ]+', LA '(\w)'/g
logicalAddressAssignRegexp ==
    <<Lit(DebugText), Plus(StampClass), Lit(AllocateText), One(Digits),
      Lit(TypeText), Plus(WordChars \cup {" "}), Lit(LaText), One(WordChars),
      Lit(<<"'">>)>>

KeyPressedText ==
    <<"k", "e", "y", " ", "p", "r", "e", "s", "s", "e", "d", ":", " ">>
KeyReleasedText ==
    <<"k", "e", "y", " ", "r", "e", "l", "e", "a", "s", "e", "d", ":", " ">>

\* /^DEBUG:[ \[\d\]\t]+key pressed: (\w+) \((\w+)\)/g
keyDownRegexp ==
    <<Lit(DebugText), Plus(StampClass), Lit(KeyPressedText), Plus(WordChars),
      Lit(<<" ", "(">>), Plus(WordChars), Lit(<<")">>)>>

\* /^DEBUG:[ \[\d\]\t]+key released: (\w+) \((\w+)\)/g
keyUpRegexp ==
    <<Lit(DebugText), Plus(StampClass), Lit(KeyReleasedText), Plus(WordChars),
      Lit(<<" ", "(">>), Plus(WordChars), Lit(<<")">>)>>

\* regexp.exec(message) of one of these two patterns: <<>> for null, else
\* the texts of its two groups, <<result[1], result[2]>>.  (The decoders run
\* as callbacks of processLine, right after line.match(regexp) has left the
\* pattern's lastIndex 0.)
ExecKey(regexp, message) ==
    IF ExecAnchored(regexp, message, 0) < 0 THEN <<>>
    ELSE LET a == MatchItems(message, 0, SubSeq(regexp, 1, 3))
             keyName == TakeWhile(Substr(message, a), WordChars)
             b == a + Len(keyName) + 2
         IN  <<keyName, TakeWhile(Substr(message, b), WordChars)>>

(***************************************************************************)
(* The enumerations.                                                       *)
(***************************************************************************)
\* LogicalAddress
UNKNOWN == -1
TV == 0
RECORDINGDEVICE1 == 1
PLAYBACKDEVICE1 == 4
AUDIOSYSTEM == 5
BROADCAST == 15
LogicalAddress == (-1)..15

\* OperationCode: the names the program uses, with their CEC values, in
\* declaration order.
OperationCode ==
    << [key |-> "IMAGE_VIEW_ON", value |-> 4],
       [key |-> "STANDBY", value |-> 54],
       [key |-> "USER_CONTROL_PRESSED", value |-> 68],
       [key |-> "USER_CONTROL_RELEASE", value |-> 69],
       [key |-> "SET_OSD_NAME", value |-> 71],
       [key |-> "ROUTING_CHANGE", value |-> 128],
       [key |-> "ACTIVE_SOURCE", value |-> 130],
       [key |-> "REPORT_PHYSICAL_ADDRESS", value |-> 132],
       [key |-> "GIVE_DEVICE_POWER_STATUS", value |-> 143],
       [key |-> "REPORT_POWER_STATUS", value |-> 144] >>

\* Opcode.<key>
Opcode(key) ==
    LET i == CHOOSE j \in DOMAIN OperationCode : OperationCode[j].key = key
    IN  OperationCode[i].value

\* Faulty variant of OpcodeKey: the loop compares the key with the opcode, so
\* it never finds one.
OpcodeKeyNeverFound(opcode) == ""

\* The key the loop `for (let key in opcodes)` stops at: the first name whose
\* value is the packet's opcode, "" when the loop ends without one.  (The
\* numeric keys of the enumeration's reverse mapping hold names, which are
\* never === a number.)
OpcodeKey(opcode) ==
    LET at == {j \in DOMAIN OperationCode : StrictEq(OperationCode[j].value, opcode)}
    IN  IF at = {} THEN "" ELSE OperationCode[Min(at)].key

(***************************************************************************)
(* The packet codec: decoding a traffic line.                              *)
(***************************************************************************)
\* The tokens of a traffic line: the text after "]\t" and after the first
\* space that follows, split on ":".
TrafficTokens(traffic) ==
    LET command == Substr(traffic, IndexOf(traffic, <<"]", "\t">>) + 2)
        tail == Substr(command, IndexOf(command, <<" ">>) + 1)
    IN  Split(tail, ":")

\* CecMonitor.processTraffic, up to the packet it hands to processPacket.
ParsedPacket(traffic) ==
    LET tokens == TrafficTokens(traffic)
    IN  [tokens |-> tokens,
         source |-> ParseIntAt(tokens[1], 0),
         target |-> ParseIntAt(tokens[1], 1),
         opcode |-> IF Len(tokens) > 1 THEN ParseInt16(tokens[2]) ELSE 0,
         args |-> IF Len(tokens) > 1
                  THEN [i \in 1..(Len(tokens) - 2) |-> ParseInt16(tokens[i + 2])]
                  ELSE <<>>]

\* s[i] for a 0-based position i, as a text: empty where s[i] is undefined.
CharAt(s, i) == IF i < Len(s) THEN <<s[i + 1]>> ELSE <<>>

\* NodeCec.processTraffic: source and target stay the characters of the
\* header token (an absent character is undefined, here the empty text).
NodeCecParsedPacket(traffic) ==
    LET tokens == TrafficTokens(traffic)
    IN  [tokens |-> tokens,
         source |-> CharAt(tokens[1], 0),
         target |-> CharAt(tokens[1], 1),
         opcode |-> IF Len(tokens) > 1 THEN ParseInt16(tokens[2]) ELSE 0,
         args |-> IF Len(tokens) > 1
                  THEN [i \in 1..(Len(tokens) - 2) |-> ParseInt16(tokens[i + 2])]
                  ELSE <<>>]

(***************************************************************************)
(* Events.  An event is what emit was called with: the event name (a tuple *)
(* of its parts, <<"op.", "STANDBY">> for op.STANDBY), the packet if one   *)
(* is passed, and the numbers passed after it.                             *)
(***************************************************************************)
Event(name, pkt, args) == [name |-> name, pkt |-> pkt, args |-> args]

\* ToUint16 of a number, as String.fromCharCode applies it.
ToUint16(x) == IF IsNaN(x) THEN 0 ELSE x % 65536

\* String.fromCharCode.apply(null, args), as the sequence of its code units.
FromCharCode(args) == [i \in 1..Len(args) |-> ToUint16(args[i])]

\* args[i] for a 0-based i: undefined past the end.
ArgAt(args, i) == IF i < Len(args) THEN Defined(args[i + 1]) ELSE Undefined

\* The switch of processPacket (shared by CecMonitor and NodeCec): the
\* events emitted after `packet` and the value returned.  `let source` is
\* declared in the case of ACTIVE_SOURCE and assigned in the case of
\* REPORT_PHYSICAL_ADDRESS of the same block: where the build has kept the
\* `let`, that assignment throws a ReferenceError.
DispatchOpcode(packet, compiled) ==
    LET args == packet.args
        none == [ret |-> FALSE, threw |-> FALSE, events |-> <<>>]
    IN  CASE StrictEq(packet.opcode, Opcode("SET_OSD_NAME")) ->
               IF Len(args) = 0 THEN none
               ELSE [ret |-> TRUE, threw |-> FALSE,
                     events |-> <<Event(<<"SET_OSD_NAME">>, <<packet>>, FromCharCode(args))>>]
          [] StrictEq(packet.opcode, Opcode("ROUTING_CHANGE")) ->
               IF Len(args) < 4 THEN none
               ELSE [ret |-> TRUE, threw |-> FALSE,
                     events |-> <<Event(<<"ROUTING_CHANGE">>, <<packet>>,
                                        <<ShiftOr(args[1], args[2]), ShiftOr(args[3], args[4])>>)>>]
          [] StrictEq(packet.opcode, Opcode("ACTIVE_SOURCE")) ->
               IF Len(args) < 2 THEN none
               ELSE [ret |-> TRUE, threw |-> FALSE,
                     events |-> <<Event(<<"ACTIVE_SOURCE">>, <<packet>>,
                                        <<ShiftOr(args[1], args[2])>>)>>]
          [] StrictEq(packet.opcode, Opcode("REPORT_PHYSICAL_ADDRESS")) ->
               IF Len(args) < 2 THEN none
               ELSE IF compiled = LetKept
               THEN [ret |-> FALSE, threw |-> TRUE, events |-> <<>>]
               ELSE [ret |-> TRUE, threw |-> FALSE,
                     events |-> <<Event(<<"REPORT_PHYSICAL_ADDRESS">>, <<packet>>,
                                        <<ShiftOr(args[1], args[2]), ArgAt(args, 2)>>)>>]
          [] OTHER ->
               LET key == OpcodeKey(packet.opcode)
               IN  IF key = "" THEN none
                   ELSE [ret |-> TRUE, threw |-> FALSE,
                         events |-> <<Event(<<"op.", key>>, <<packet>>, args)>>]

\* Faulty variant of processPacket: no filter on the target.
ProcessPacketNoFilter(packet, monitorMode, deviceAddress, compiled) ==
    IF ~(Len(packet.tokens) > 1)
    THEN [ret |-> FALSE, threw |-> FALSE, events |-> <<Event(<<"polling">>, <<packet>>, <<>>)>>]
    ELSE LET d == DispatchOpcode(packet, compiled)
         IN  [ret |-> d.ret, threw |-> d.threw,
              events |-> <<Event(<<"packet">>, <<packet>>, <<>>)>> \o d.events]

\* CecMonitor.processPacket: the events emitted, in order, and the value
\* returned.
ProcessPacket(packet, monitorMode, deviceAddress, compiled) ==
    IF ~(Len(packet.tokens) > 1)
    THEN [ret |-> FALSE, threw |-> FALSE, events |-> <<Event(<<"polling">>, <<packet>>, <<>>)>>]
    ELSE IF ~monitorMode /\ ~StrictEq(packet.target, deviceAddress)
                         /\ ~StrictEq(packet.target, BROADCAST)
    THEN [ret |-> FALSE, threw |-> FALSE, events |-> <<>>]
    ELSE LET d == DispatchOpcode(packet, compiled)
         IN  [ret |-> d.ret, threw |-> d.threw,
              events |-> <<Event(<<"packet">>, <<packet>>, <<>>)>> \o d.events]

\* NodeCec.processPacket.
NodeCecProcessPacket(packet, compiled) ==
    IF ~(Len(packet.tokens) > 1)
    THEN [ret |-> FALSE, threw |-> FALSE, events |-> <<Event(<<"POLLING">>, <<packet>>, <<>>)>>]
    ELSE LET d == DispatchOpcode(packet, compiled)
         IN  [ret |-> d.ret, threw |-> d.threw,
              events |-> <<Event(<<"packet">>, <<packet>>, <<>>)>> \o d.events]


(***************************************************************************)
(* The packet codec: encoding an operation.                                *)
(***************************************************************************)
\* Faulty variant of ExecuteOperationText: the target comes before the source.
ExecuteOperationTextTargetFirst(deviceAddress, target, opcode, params) ==
    LET base == <<"t", "x", " ">> \o ToString16(target) \o ToString16(deviceAddress)
                \o <<":">> \o ToString16(opcode)
    IN  IF Len(params) > 0
        THEN base \o <<":">> \o Join([i \in 1..Len(params) |-> ToString16(params[i])], <<":">>)
        ELSE base

\* The message CecMonitor.executeOperation hands to send.
ExecuteOperationText(deviceAddress, target, opcode, params) ==
    LET base == <<"t", "x", " ">> \o ToString16(deviceAddress) \o ToString16(target)
                \o <<":">> \o ToString16(opcode)
    IN  IF Len(params) > 0
        THEN base \o <<":">> \o Join([i \in 1..Len(params) |-> ToString16(params[i])], <<":">>)
        ELSE base

\* What CecMonitor.send writes to the adapter's input.
SendText(message) == message \o <<"\n">>

\* The message of a written line: the line without its terminator.
WireLine(written) == SubSeq(written, 1, Len(written) - 1)

\* Faulty variant of BitAnd255: no mask.
BitAndNothing(x) == ToInt32(x)

\* x & 255 (x within 32 bits).
BitAnd255(x) == ToInt32(x) % 256

\* x >> 8, the sign-propagating shift (x within 32 bits).
ShiftRight8(x) == ToInt32(x) \div 256

RECURSIVE IntegerLoop(_, _, _)
\* The loop `do { bytes[--i] = param & 255; param = param >> 8 } while (i)`.
IntegerLoop(bytes, i, param) ==
    LET j == i - 1
        filled == [bytes EXCEPT ![j + 1] = BitAnd255(param)]
    IN  IF j # 0 THEN IntegerLoop(filled, j, ShiftRight8(param)) ELSE filled

\* The bytes executeOperationWithInteger hands to executeOperation.
IntegerBytes(param) == IntegerLoop(<<Undefined, Undefined, Undefined>>, 3, param)

\* s.charCodeAt(i) of a string given by its UTF-16 code units.
CharCodeAt(units, i) == units[i + 1]

\* param.split('').map(x => x.charCodeAt(0)) of a string given by its UTF-16
\* code units: split('') yields one string per code unit.
StringBytes(param) == [i \in 1..Len(param) |-> CharCodeAt(<<param[i]>>, 0)]

(***************************************************************************)
(* Promises, listeners and timers.                                         *)
(***************************************************************************)
Queries == 1..MaxQueries

\* The deadline of waitForOperationResponse, in milliseconds.
Timeout == 5000

UnableError == "Unable to request the power status."
TimeoutError == "Target cec-device took too long to respond to the request."

NoPromise == [state |-> "none", value |-> Undefined, error |-> ""]
PendingPromise == [state |-> "pending", value |-> Undefined, error |-> ""]

\* resolve(v) of a promise: it settles a pending promise and nothing else.
Resolve(p, v) ==
    IF p.state = "pending" THEN [state |-> "resolved", value |-> v, error |-> ""] ELSE p

\* reject(new Error(e)) of a promise: it settles a pending promise and nothing else.
Reject(p, e) ==
    IF p.state = "pending" THEN [state |-> "rejected", value |-> Undefined, error |-> e] ELSE p

\* Promise.reject(new Error(e)).
Rejected(e) == [state |-> "rejected", value |-> Undefined, error |-> e]

\* The event a query waits for: `op.${OperationCode[waitForOpcode]}`.
ResponseEvent == <<"op.", "REPORT_POWER_STATUS">>

\* monitor.once(event, resolverFunction) of query q.
Once(ls, event, q) == Append(ls, [event |-> event, fn |-> q, once |-> TRUE])

\* Faulty variant of off: the listener stays registered.
OffNothing(ls, event, q) == ls

\* monitor.off(event, resolverFunction) of query q.
Off(ls, event, q) == SelectSeq(ls, LAMBDA l : ~(l.event = event /\ l.fn = q))

\* Faulty variant of emit: only the first listener of an event is called.
CalledFirstOnly(ls, events) ==
    LET all == {i \in DOMAIN ls : \E j \in DOMAIN events : events[j].name = ls[i].event}
    IN  IF all = {} THEN {} ELSE {Min(all)}

\* The listeners an emit of the events calls.
Called(ls, events) ==
    {i \in DOMAIN ls : \E j \in DOMAIN events : events[j].name = ls[i].event}

\* The listeners left after the events were emitted: emit removes a one-shot
\* listener as it calls it.
AfterEmit(ls, events) ==
    LET keep == {i \in DOMAIN ls : ~(i \in Called(ls, events) /\ ls[i].once)}
        F[i \in 0..Len(ls)] ==
            IF i = 0 THEN <<>>
            ELSE IF i \in keep THEN Append(F[i - 1], ls[i]) ELSE F[i - 1]
    IN  F[Len(ls)]

\* The packet of the event that listener l was called with.
CalledWith(l, events) ==
    LET j == Min({k \in DOMAIN events : events[k].name = l.event})
    IN  events[j].pkt[1]

\* resolverMethod of getPowerState: packet => packet.args[0].
PowerStateOf(packet) == ArgAt(packet.args, 0)

\* resolverFunction: resolve(resolverMethod(packet)).
ResolverFunction(p, packet) == Resolve(p, PowerStateOf(packet))

(***************************************************************************)
(* The key lines the adapter may write.                                    *)
(***************************************************************************)
Stamp == <<" ", "[", "1", "2", "]", "\t">>
KeyLine(kindText, key, code) ==
    DebugText \o Stamp \o kindText \o key \o <<" ", "(">> \o code \o <<")">>

\* The keys of the model, each a name and the text of its code: two keys as
\* the adapter reports them, and one whose code is not a hex number.
Keys == { << <<"u", "p">>, <<"1">> >>,
          << <<"e", "x", "i", "t">>, <<"d">> >>,
          << <<"u", "p">>, <<"z", "z">> >> }
KeyPressedLine(k) == KeyLine(KeyPressedText, k[1], k[2])
KeyReleasedLine(k) == KeyLine(KeyReleasedText, k[1], k[2])
KeyLines == {KeyPressedLine(k) : k \in Keys} \cup {KeyReleasedLine(k) : k \in Keys}

\* What regexp.exec computes of each key line in the two decoders (computed
\* once per line of the model).
KeyFacts ==
    [message \in KeyLines |->
        [keyDown |-> ExecKey(keyDownRegexp, message),
         keyUp |-> ExecKey(keyUpRegexp, message)]]

(***************************************************************************)
(* Remote: the decoders of key lines.  r is the Remote's fields; a decoder *)
(* yields the events it emits, in order, and the fields it leaves.         *)
(***************************************************************************)
\* The fields of a Remote after construction.
NewRemoteFields ==
    [previousKey |-> <<>>, previousKeyCode |-> -1,
     currentKey |-> <<>>, currentKeyCode |-> -1]

\* A KeyEvent with the repeat field, emitted under the given name.
KeyEvent(name, repeat, key, keyCode) ==
    [name |-> name, repeat |-> repeat, key |-> key, keyCode |-> keyCode]

\* The KeyEvent of keyup: it has no repeat field.
KeyUpEvent(key, keyCode) == [name |-> <<"keyup">>, key |-> key, keyCode |-> keyCode]

\* Faulty variant of keyDownDecoder: repeat compares the key codes.
KeyDownDecoderRepeatByCode(message, r) ==
    LET result == KeyFacts[message].keyDown
    IN  IF result = <<>> THEN [events |-> <<>>, remote |-> r]
        ELSE LET keyName == result[1]
                 keyCode == ParseInt16(result[2])
             IN  [events |-> <<KeyEvent(<<"keydown">>, StrictEq(r.currentKeyCode, keyCode),
                                        keyName, keyCode)>>,
                  remote |-> [previousKey |-> r.currentKey,
                              previousKeyCode |-> r.currentKeyCode,
                              currentKey |-> keyName,
                              currentKeyCode |-> keyCode]]

\* Remote.keyDownDecoder
KeyDownDecoder(message, r) ==
    LET result == KeyFacts[message].keyDown
    IN  IF result = <<>> THEN [events |-> <<>>, remote |-> r]
        ELSE LET keyName == result[1]
                 keyCode == ParseInt16(result[2])
             IN  [events |-> <<KeyEvent(<<"keydown">>, r.currentKey = keyName,
                                        keyName, keyCode)>>,
                  remote |-> [previousKey |-> r.currentKey,
                              previousKeyCode |-> r.currentKeyCode,
                              currentKey |-> keyName,
                              currentKeyCode |-> keyCode]]

\* Faulty variant of keyUpDecoder: the held key stays held after its keypress.
KeyUpDecoderKeepsHeld(message, r) ==
    LET result == KeyFacts[message].keyUp
    IN  IF result = <<>> THEN [events |-> <<>>, remote |-> r]
        ELSE LET keyName == result[1]
                 keyCode == ParseInt16(result[2])
                 keyup == KeyUpEvent(keyName, keyCode)
             IN  IF StrictEq(r.currentKeyCode, keyCode)
                 THEN LET repeat == StrictEq(r.previousKeyCode, r.currentKeyCode)
                      IN  [events |-> <<keyup,
                                        KeyEvent(<<"keypress">>, repeat, keyName, keyCode),
                                        KeyEvent(<<"keypress.", keyName>>, repeat,
                                                 keyName, keyCode)>>,
                           remote |-> r]
                 ELSE [events |-> <<keyup>>, remote |-> r]

\* Faulty variant of keyUpDecoder: the release is matched with the held key
\* by name.
KeyUpDecoderByName(message, r) ==
    LET result == KeyFacts[message].keyUp
    IN  IF result = <<>> THEN [events |-> <<>>, remote |-> r]
        ELSE LET keyName == result[1]
                 keyCode == ParseInt16(result[2])
                 keyup == KeyUpEvent(keyName, keyCode)
             IN  IF r.currentKey = keyName
                 THEN LET repeat == StrictEq(r.previousKeyCode, r.currentKeyCode)
                      IN  [events |-> <<keyup,
                                        KeyEvent(<<"keypress">>, repeat, keyName, keyCode),
                                        KeyEvent(<<"keypress.", keyName>>, repeat,
                                                 keyName, keyCode)>>,
                           remote |-> [previousKey |-> r.currentKey,
                                       previousKeyCode |-> r.currentKeyCode,
                                       currentKey |-> <<>>,
                                       currentKeyCode |-> -1]]
                 ELSE [events |-> <<keyup>>, remote |-> r]

\* Remote.keyUpDecoder
KeyUpDecoder(message, r) ==
    LET result == KeyFacts[message].keyUp
    IN  IF result = <<>> THEN [events |-> <<>>, remote |-> r]
        ELSE LET keyName == result[1]
                 keyCode == ParseInt16(result[2])
                 keyup == KeyUpEvent(keyName, keyCode)
             IN  IF StrictEq(r.currentKeyCode, keyCode)
                 THEN LET repeat == StrictEq(r.previousKeyCode, r.currentKeyCode)
                      IN  [events |-> <<keyup,
                                        KeyEvent(<<"keypress">>, repeat, keyName, keyCode),
                                        KeyEvent(<<"keypress.", keyName>>, repeat,
                                                 keyName, keyCode)>>,
                           remote |-> [previousKey |-> r.currentKey,
                                       previousKeyCode |-> r.currentKeyCode,
                                       currentKey |-> <<>>,
                                       currentKeyCode |-> -1]]
                 ELSE [events |-> <<keyup>>, remote |-> r]

(***************************************************************************)
(* The lines the adapter may write.                                        *)
(***************************************************************************)
TrafficLine(tail) == TrafficText \o Stamp \o <<"<", "<", " ">> \o tail
GrantLine(la) ==
    DebugText \o Stamp \o AllocateText \o <<"0">> \o TypeText
    \o <<"r", "e", "c", "o", "r", "d", "i", "n", "g", " ", "d", "e", "v", "i", "c", "e">>
    \o LaText \o <<la>> \o <<"'">>
ReadyLine == <<"w", "a", "i", "t", "i", "n", "g", " ", "f", "o", "r", " ",
               "i", "n", "p", "u", "t">>
NoticeLine == <<"N", "O", "T", "I", "C", "E", ":", " ", "o", "k">>

\* Token lists after the header token.
Payloads ==
    { <<>>,
      <<":", "9", "0", ":", "0", "1">>,
      <<":", "9", "0", ":", "0", "0">>,
      <<":", "9", "0">>,
      <<":", "4", "7", ":", "5", "4", ":", "5", "6">>,
      <<":", "4", "7">>,
      <<":", "8", "0", ":", "1", "0", ":", "0", "0", ":", "2", "0", ":", "0", "0">>,
      <<":", "8", "0", ":", "1", "0", ":", "0", "0">>,
      <<":", "8", "2", ":", "1", "0", ":", "0", "0">>,
      <<":", "8", "2", ":", "1", "0">>,
      <<":", "8", "4", ":", "1", "0", ":", "0", "0", ":", "0", "4">>,
      <<":", "8", "4", ":", "1", "0", ":", "0", "0">>,
      <<":", "8", "4", ":", "1", "0">>,
      <<":", "3", "6">>,
      <<":", "f", "f">>,
      <<":", "z", "z">> }

\* Header tokens: source TV, to several targets; and two malformed headers.
Headers == { <<"0", "1">>, <<"0", "4">>, <<"0", "5">>, <<"0", "f">>, <<"0">>, <<>> }

\* The grants the adapter may report.
GrantedDigits == {"1", "4"}

\* Every line of the model.
Lines ==
    {TrafficLine(h \o p) : h \in Headers, p \in Payloads}
    \cup {GrantLine(la) : la \in GrantedDigits}
    \cup {ReadyLine, NoticeLine}

\* The lines that arrive while queries are under way.
QueryLines ==
    { TrafficLine(<<"0", "1", ":", "9", "0", ":", "0", "1">>),
      TrafficLine(<<"0", "4", ":", "9", "0", ":", "0", "0">>),
      TrafficLine(<<"0", "5", ":", "9", "0", ":", "0", "1">>),
      GrantLine("4"),
      NoticeLine }

\* A power report whose last token goes on with the text of the ready notice:
\* a line that two handler entries match.
ReadyReportLine ==
    TrafficLine(<<"0", "1", ":", "9", "0", ":", "0", "1", " ">> \o WaitingText)

\* Lines for every handler entry, for none and for two at once.
DispatchLines ==
    { ReadyLine, NoticeLine, GrantLine("4"), ReadyReportLine,
      TrafficLine(<<"0", "1", ":", "9", "0", ":", "0", "1">>),
      TrafficLine(<<"0", "5", ":", "3", "6">>),
      TrafficLine(<<"0", "f", ":", "8", "4", ":", "1", "0", ":", "0", "0", ":", "0", "4">>),
      KeyPressedLine(<< <<"u", "p">>, <<"1">> >>),
      KeyReleasedLine(<< <<"u", "p">>, <<"1">> >>) }

\* The lines setDeviceAddress is called with directly.
DirectLines == {GrantLine(la) : la \in GrantedDigits} \cup {NoticeLine}

\* The addresses the monitor is constructed with.
InitAddresses == {RECORDINGDEVICE1, PLAYBACKDEVICE1}

\* The devices getPowerState is asked about.
Targets == {TV, AUDIOSYSTEM}

\* The characters of the streams of the model.
StreamChars == {"a", "b", "\n"}

\* The texts a stream may carry.
Streams == UNION {[1..n -> StreamChars] : n \in 0..MaxStream}

\* The lines such a stream may hold.
StreamLines == UNION {[1..n -> StreamChars \ {"\n"}] : n \in 0..MaxStream}

\* A stream of two lines, the first a REPORT_PHYSICAL_ADDRESS packet to
\* BROADCAST.
ReportStream ==
    TrafficLine(<<"0", "f", ":", "8", "4", ":", "1", "0", ":", "0", "0", ":", "0", "4">>)
    \o <<"\n", "a", "\n">>

\* What the handler entries' tests and processTraffic compute of each line
\* (computed once per line of the model).
LineFacts ==
    [line \in Lines \cup KeyLines \cup DispatchLines \cup StreamLines \cup {ReportStream} |->
        LET isTraffic == MatchesAnchored(trafficRegexp, line)
        IN  [isReady |-> IndexOf(line, WaitingText) >= 0,
             isTraffic |-> isTraffic,
             isGrant |-> MatchesAnchored(logicalAddressAssignRegexp, line),
             isKeyDown |-> MatchesAnchored(keyDownRegexp, line),
             isKeyUp |-> MatchesAnchored(keyUpRegexp, line),
             packet |-> IF isTraffic THEN <<ParsedPacket(line)>> ELSE <<>>,
             nodeCecPacket |-> IF isTraffic THEN <<NodeCecParsedPacket(line)>> ELSE <<>>]]

(***************************************************************************)
(* State.                                                                  *)
(***************************************************************************)
VARIABLES
    deviceAddress,  \* CecMonitor.deviceAddress
    monitorMode,    \* CecMonitor.monitorMode
    ready,          \* CecMonitor.ready
    build,          \* what the build has made of the `let` declarations
    lastIndex,      \* logicalAddressAssignRegexp.lastIndex
    listeners,      \* the monitor's registered listeners, in registration order
    promise,        \* the promise of each getPowerState call
    isResolved,     \* isResolved of each waitForOperationResponse call
    timer,          \* the setTimeout of each waitForOperationResponse call
    stdin,          \* what the last step wrote to the adapter's input
    granted,        \* the address the adapter last reported as granted
    emitted,        \* the events emitted by the last step, in order
    last,           \* the last step: what was called and what it returned
    parsed,         \* the packet processTraffic built in the last step, if any
    call,           \* the arguments of the last call of an operation
    stdinHandlers,  \* CecMonitor.stdinHandlers, by the names of its entries
    previousKey,    \* Remote.previousKey
    previousKeyCode,\* Remote.previousKeyCode
    currentKey,     \* Remote.currentKey
    currentKeyCode, \* Remote.currentKeyCode
    remoteEmitted,  \* the events the Remote emitted since its construction
    formerRemotes,  \* the Remotes constructed over the monitor before that one
    stream,         \* the characters the child's stdout carries in all
    delivered,      \* how many of them its `data` events have delivered
    backlog,        \* backlog of emitLines
    lines,          \* the `line` events emitLines emitted, in order
    ended,          \* the stream's `end` event has been emitted
    client,         \* CecMonitor.client: what has become of the child process
    clientEmitted,  \* the events emitted on the child process object, in order
    nodeCecClient,  \* NodeCec.client: what has become of its child process
    nodeCecFormer,  \* what has become of the children spawned before that one
    nodeCecClientEmitted \* the events emitted on its child process objects

\* The state of the Remotes: the fields are those of the Remote constructed
\* last.
remoteVars == <<stdinHandlers, previousKey, previousKeyCode, currentKey,
                currentKeyCode, remoteEmitted, formerRemotes>>
\* The state of emitLines.
streamVars == <<stream, delivered, backlog, lines, ended>>
\* The state of the NodeCec's child processes.
nodeCecVars == <<nodeCecClient, nodeCecFormer, nodeCecClientEmitted>>
\* The state of the child processes.
childVars == <<client, clientEmitted, nodeCecVars>>

vars == <<deviceAddress, monitorMode, ready, build, lastIndex, listeners, promise,
          isResolved, timer, stdin, granted, emitted, last, parsed, call,
          remoteVars, streamVars, childVars>>

NoTimer == [state |-> "idle", remaining |-> 0]

\* No operation has been called yet: nothing is written.
NoCall == [target |-> 0, opcode |-> 0, params |-> <<>>,
           param |-> <<>>, writes |-> <<>>]

\* The entries the CecMonitor's stdinHandlers starts with.
MonitorHandlers == <<"waiting for input", "TRAFFIC", "logicalAddressAssign">>

\* What the last step was: the object and method called, the line handed to
\* it, the number of handler callbacks processLine executed, whether
\* processPacket was called and what it returned, the number of listeners the
\* step's emits called, for getPowerState the query started and what send
\* returned, and whether the step threw.
Step(obj, op, line, executed, called, ret, q, ok, n) ==
    [obj |-> obj, op |-> op, line |-> line, executed |-> executed,
     called |-> called, ret |-> ret, q |-> q, ok |-> ok, listenersCalled |-> n,
     threw |-> FALSE]

\* The step as it ended: threw says that an exception left it, so that it
\* returned nothing.
Ended(step, threw) == [step EXCEPT !.threw = threw]

\* new CecMonitor(deviceName, deviceAddress, monitorMode), with its Commander;
\* the fields of a Remote hold what its construction gives them.  The
\* constructor has called start: the child process is spawned and runs.
NewMonitor(address, mode) ==
    /\ deviceAddress = address
    /\ monitorMode = mode
    /\ ready = FALSE
    /\ build \in Builds
    /\ lastIndex = 0
    /\ listeners = <<>>
    /\ promise = [q \in Queries |-> NoPromise]
    /\ isResolved = [q \in Queries |-> FALSE]
    /\ timer = [q \in Queries |-> NoTimer]
    /\ stdin = <<>>
    /\ granted = address
    /\ emitted = <<>>
    /\ last = Step("CecMonitor", "new", <<>>, 0, FALSE, FALSE, 0, FALSE, 0)
    /\ parsed = <<>>
    /\ call = NoCall
    /\ stdinHandlers = MonitorHandlers
    /\ previousKey = NewRemoteFields.previousKey
    /\ previousKeyCode = NewRemoteFields.previousKeyCode
    /\ currentKey = NewRemoteFields.currentKey
    /\ currentKeyCode = NewRemoteFields.currentKeyCode
    /\ remoteEmitted = <<>>
    /\ formerRemotes = <<>>
    /\ client = "running"
    /\ clientEmitted = <<>>

\* new NodeCec(), and start() on it when started: its constructor spawns no
\* child process.
NewNodeCec(started) ==
    /\ nodeCecClient = IF started THEN "running" ELSE "none"
    /\ nodeCecFormer = <<>>
    /\ nodeCecClientEmitted = <<>>

\* emitLines(stream) on a stream that will carry the text.
NewStream(text) ==
    /\ stream = text
    /\ delivered = 0
    /\ backlog = <<>>
    /\ lines = <<>>
    /\ ended = FALSE

Init ==
    \E address \in InitAddresses, mode \in BOOLEAN :
        NewMonitor(address, mode) /\ NewStream(<<>>) /\ NewNodeCec(TRUE)


(***************************************************************************)
(* CecMonitor: the line engine.                                            *)
(***************************************************************************)
Bool2Nat(b) == IF b THEN 1 ELSE 0

\* stdinHandlers holds the entry of that name.
HasHandler(handlers, name) == \E i \in DOMAIN handlers : handlers[i] = name

\* The callback of the `waiting for input` handler: emit('ready').
ReadyEvents(isReady) ==
    IF isReady THEN <<Event(<<"ready">>, <<>>, <<>>)>> ELSE <<>>

\* CecMonitor.setDeviceAddress: the device address and the regexp's lastIndex
\* it leaves.  result[0] is the text of the whole match.
SetDeviceAddressResult(line, address, li) ==
    LET e == ExecAnchored(logicalAddressAssignRegexp, line, li)
    IN  IF e < 0
        THEN [deviceAddress |-> address, lastIndex |-> 0]
        ELSE [deviceAddress |-> ParseInt16(SubSeq(line, 1, e)), lastIndex |-> e]

\* The address a grant line reports: the character captured by (\w).
GrantedBy(line) ==
    LET e == MatchItems(line, 0, logicalAddressAssignRegexp)
    IN  ParseInt16(<<line[e - 1]>>)

\* The two entries of one Remote on a line, keyDown first: the fields its
\* decoders leave and the events the Remote has emitted; an entry whose pattern the
\* line does not match, or that an exception kept the loop from, does nothing.
DecodeKeyLine(line, r, isKeyDown, isKeyUp) ==
    LET down == IF isKeyDown THEN KeyDownDecoder(line, r.remote)
                ELSE [events |-> <<>>, remote |-> r.remote]
        up == IF isKeyUp THEN KeyUpDecoder(line, down.remote)
              ELSE [events |-> <<>>, remote |-> down.remote]
    IN  [remote |-> up.remote,
         remoteEmitted |-> IF isKeyDown \/ isKeyUp
                           THEN Append(r.remoteEmitted, down.events \o up.events)
                           ELSE r.remoteEmitted]

\* What the lines of one event change of the monitor and of its Remote, and
\* what they have done so far: the events emitted, the number of `line`
\* events, and of the last line the packet built, the number of callbacks
\* executed, whether processPacket was called, what it returned, how many
\* listeners its events called and whether an exception left the listener.
Monitor ==
    [deviceAddress |-> deviceAddress, lastIndex |-> lastIndex, listeners |-> listeners,
     promise |-> promise, isResolved |-> isResolved, granted |-> granted,
     remotes |-> Append(formerRemotes,
                        [remote |-> [previousKey |-> previousKey,
                                     previousKeyCode |-> previousKeyCode,
                                     currentKey |-> currentKey,
                                     currentKeyCode |-> currentKeyCode],
                         remoteEmitted |-> remoteEmitted]),
     emitted |-> <<>>, done |-> 0, parsed |-> <<>>, executed |-> 0, called |-> FALSE,
     ret |-> FALSE, hits |-> 0, threw |-> FALSE]

\* The listener on a line whose facts and whose packet's result r are given.
LineListenerWith(m, line, facts, r) ==
    LET isReady == facts.isReady
        isTraffic == facts.isTraffic
        \* an exception thrown by the TRAFFIC entry's callback ends the loop
        \* over the entries: those after it are not looked at
        isGrant == ~r.threw /\ facts.isGrant
        \* line.match(regexp) has left lastIndex 0 when the callback runs; the
        \* test is not made when the TRAFFIC entry's callback threw
        set == IF r.threw
               THEN [deviceAddress |-> m.deviceAddress, lastIndex |-> m.lastIndex]
               ELSE IF isGrant
               THEN SetDeviceAddressResult(line, m.deviceAddress, 0)
               ELSE [deviceAddress |-> m.deviceAddress, lastIndex |-> 0]
        hit == Called(m.listeners, r.events)
        fns == {m.listeners[i].fn : i \in hit}
        pkt(q) == CalledWith(m.listeners[CHOOSE i \in hit : m.listeners[i].fn = q],
                             r.events)
        \* the entries a Remote has pushed come after the monitor's own
        isKeyDown == /\ ~r.threw
                     /\ HasHandler(stdinHandlers, "keyDown") /\ facts.isKeyDown
        isKeyUp == /\ ~r.threw
                   /\ HasHandler(stdinHandlers, "keyUp") /\ facts.isKeyUp
    IN  [deviceAddress |-> set.deviceAddress,
         lastIndex |-> set.lastIndex,
         listeners |-> AfterEmit(m.listeners, r.events),
         promise |-> [q \in Queries |->
                         IF q \in fns THEN ResolverFunction(m.promise[q], pkt(q))
                         ELSE m.promise[q]],
         isResolved |-> [q \in Queries |-> m.isResolved[q] \/ q \in fns],
         granted |-> IF isGrant THEN GrantedBy(line) ELSE m.granted,
         \* every Remote has pushed both of its entries; the last of
         \* m.remotes stands for the fields where none was constructed
         remotes |-> [i \in DOMAIN m.remotes |->
                         DecodeKeyLine(line, m.remotes[i], isKeyDown, isKeyUp)],
         emitted |-> m.emitted
                     \o <<Event(<<"data">>, <<>>, <<>>), Event(<<"line">>, <<>>, <<>>)>>
                     \o ReadyEvents(isReady) \o r.events,
         done |-> m.done + 1,
         parsed |-> IF isTraffic THEN facts.packet ELSE <<>>,
         executed |-> Bool2Nat(isReady) + Bool2Nat(isTraffic /\ ~r.threw)
                      + Bool2Nat(isGrant)
                      + Len(m.remotes) * (Bool2Nat(isKeyDown) + Bool2Nat(isKeyUp)),
         called |-> isTraffic,
         ret |-> r.ret,
         hits |-> Cardinality(hit),
         threw |-> r.threw]

\* The listener on a line whose facts are given.
LineListenerOn(m, line, facts) ==
    LineListenerWith(m, line, facts,
                     IF facts.isTraffic
                     THEN ProcessPacket(facts.packet[1], monitorMode, m.deviceAddress, build)
                     ELSE [ret |-> FALSE, threw |-> FALSE, events |-> <<>>])

\* The child's stdout `line` listener: emit('data'), then processLine, which
\* emits `line` and runs every handler entry that matches, in order.
LineListener(m, line) == LineListenerOn(m, line, LineFacts[line])

RECURSIVE RunLines(_, _)
\* The `line` events one event of the stream emits, each running the
\* listener before the next is emitted, up to one whose listener throws.
RunLines(m, ls) ==
    IF ls = <<>> \/ m.threw THEN m ELSE RunLines(LineListener(m, ls[1]), Tail(ls))

\* The monitor and its Remote are left as the lines of the event left them.
MonitorBecomes(m) ==
    /\ emitted' = m.emitted
    /\ listeners' = m.listeners
    /\ promise' = m.promise
    /\ isResolved' = m.isResolved
    /\ deviceAddress' = m.deviceAddress
    /\ lastIndex' = m.lastIndex
    /\ granted' = m.granted
    /\ parsed' = m.parsed
    /\ previousKey' = m.remotes[Len(m.remotes)].remote.previousKey
    /\ previousKeyCode' = m.remotes[Len(m.remotes)].remote.previousKeyCode
    /\ currentKey' = m.remotes[Len(m.remotes)].remote.currentKey
    /\ currentKeyCode' = m.remotes[Len(m.remotes)].remote.currentKeyCode
    /\ remoteEmitted' = m.remotes[Len(m.remotes)].remoteEmitted
    /\ formerRemotes' = SubSeq(m.remotes, 1, Len(m.remotes) - 1)

\* One `line` event of the child's stdout: the listener on that line.
ProcessLine(line) ==
    \E m \in {LineListener(Monitor, line)} :
        /\ MonitorBecomes(m)
        /\ last' = Ended(Step("CecMonitor", "processLine", line, m.executed, m.called,
                              m.ret, 0, FALSE, m.hits),
                         m.threw)
        /\ stdin' = <<>>
        /\ UNCHANGED <<monitorMode, ready, build, timer, call, stdinHandlers, streamVars,
                       childVars>>

\* A direct call of the public method setDeviceAddress(line).
SetDeviceAddress(line) ==
    LET set == SetDeviceAddressResult(line, deviceAddress, lastIndex)
    IN  /\ deviceAddress' = set.deviceAddress
        /\ lastIndex' = set.lastIndex
        /\ granted' = IF LineFacts[line].isGrant
                      THEN GrantedBy(line) ELSE granted
        /\ emitted' = <<>>
        /\ last' = Step("CecMonitor", "setDeviceAddress", line, 0, FALSE, FALSE, 0, FALSE, 0)
        /\ stdin' = <<>>
        /\ UNCHANGED <<monitorMode, ready, build, listeners, promise, isResolved, timer>>
        /\ parsed' = <<>>
        /\ UNCHANGED <<call, remoteVars, streamVars, childVars>>

\* The owner sets the public field monitorMode.
SetMonitorMode(mode) ==
    /\ mode # monitorMode
    /\ monitorMode' = mode
    /\ emitted' = <<>>
    /\ last' = Step("CecMonitor", "monitorMode", <<>>, 0, FALSE, FALSE, 0, FALSE, 0)
    /\ stdin' = <<>>
    /\ UNCHANGED <<deviceAddress, ready, build, lastIndex, listeners, promise, isResolved,
                   timer, granted>>
    /\ parsed' = <<>>
    /\ UNCHANGED <<call, remoteVars, streamVars, childVars>>

(***************************************************************************)
(* NodeCec: the legacy line engine (its own emitter, no listener of the    *)
(* Commander on it).                                                       *)
(***************************************************************************)
\* NodeCec.processLine(line) in a step of obj that has emitted the events
\* `before`: it emits `line` and runs the callback of every handler entry the
\* line matches.  The events the step has emitted, and the step.
NodeCecDispatchLine(obj, before, line, facts, r) ==
    [emitted |-> before \o <<Event(<<"line">>, <<>>, <<>>)>>
                 \o ReadyEvents(facts.isReady) \o r.events,
     last |-> Ended(Step(obj, "processLine", line,
                         Bool2Nat(facts.isReady) + Bool2Nat(facts.isTraffic /\ ~r.threw),
                         facts.isTraffic, r.ret, 0, FALSE, 0),
                    r.threw)]

\* NodeCec.processLine(line), a public method, called by the owner: it needs
\* no child process and emits no `data`.
NodeCecProcessLine(line) ==
    /\ \E facts \in {LineFacts[line]} :
       \E r \in {IF facts.isTraffic
                 THEN NodeCecProcessPacket(facts.nodeCecPacket[1], build)
                 ELSE [ret |-> FALSE, threw |-> FALSE, events |-> <<>>]} :
       \E d \in {NodeCecDispatchLine("NodeCec", <<>>, line, facts, r)} :
           emitted' = d.emitted /\ last' = d.last
    /\ stdin' = <<>>
    /\ parsed' = <<>>
    /\ UNCHANGED <<deviceAddress, monitorMode, ready, build, lastIndex, listeners, promise,
                   isResolved, timer, granted, call, remoteVars, streamVars, childVars>>

\* The `line` listener start registers on the child's stdout: it emits
\* `data`, then calls processLine.  The stdout of a child, this.client or one
\* spawned before it, carries lines from the spawn until the child has
\* closed.
NodeCecLineListener(line) ==
    /\ \/ nodeCecClient \in {"running", "killed", "exited"}
       \/ \E i \in DOMAIN nodeCecFormer : nodeCecFormer[i] \in {"running", "killed", "exited"}
    /\ \E facts \in {LineFacts[line]} :
       \E r \in {IF facts.isTraffic
                 THEN NodeCecProcessPacket(facts.nodeCecPacket[1], build)
                 ELSE [ret |-> FALSE, threw |-> FALSE, events |-> <<>>]} :
       \E d \in {NodeCecDispatchLine("NodeCecStdout", <<Event(<<"data">>, <<>>, <<>>)>>,
                                     line, facts, r)} :
           emitted' = d.emitted /\ last' = d.last
    /\ stdin' = <<>>
    /\ parsed' = <<>>
    /\ UNCHANGED <<deviceAddress, monitorMode, ready, build, lastIndex, listeners, promise,
                   isResolved, timer, granted, call, remoteVars, streamVars, childVars>>

(***************************************************************************)
(* Commander: getPowerState and its wait.                                  *)
(***************************************************************************)
\* The promise of the next getPowerState call.
NextQuery == Min({q \in Queries : promise[q].state = "none"})

\* waitForOperationResponse of query q: the listener and the timer it sets up.
WaitForOperationResponse(q) ==
    /\ promise' = [promise EXCEPT ![q] = PendingPromise]
    /\ listeners' = Once(listeners, ResponseEvent, q)
    /\ timer' = [timer EXCEPT ![q] = [state |-> "armed", remaining |-> Timeout]]

\* Faulty variant of getPowerState: the wait is set up before the result of
\* the send is looked at.
GetPowerStateWaitsFirst(target, ok) ==
    /\ \E q \in Queries : promise[q].state = "none"
    /\ stdin' = <<SendText(ExecuteOperationText(
                    deviceAddress, target, Opcode("GIVE_DEVICE_POWER_STATUS"), <<>>))>>
    /\ listeners' = Once(listeners, ResponseEvent, NextQuery)
    /\ timer' = [timer EXCEPT ![NextQuery] = [state |-> "armed", remaining |-> Timeout]]
    /\ promise' = [promise EXCEPT ![NextQuery] =
                      IF ok THEN PendingPromise ELSE Rejected(UnableError)]
    /\ emitted' = <<>>
    /\ last' = Step("Commander", "getPowerState", <<>>, 0, FALSE, FALSE, NextQuery, ok, 0)
    /\ UNCHANGED <<deviceAddress, monitorMode, ready, build, lastIndex, isResolved, granted>>
    /\ parsed' = <<>>
    /\ UNCHANGED <<call, remoteVars, streamVars, childVars>>

\* getPowerState(target) when client.stdin.write returns ok.
GetPowerState(target, ok) ==
    /\ \E q \in Queries : promise[q].state = "none"
    /\ stdin' = <<SendText(ExecuteOperationText(
                    deviceAddress, target, Opcode("GIVE_DEVICE_POWER_STATUS"), <<>>))>>
    /\ IF ok
       THEN WaitForOperationResponse(NextQuery)
       ELSE /\ promise' = [promise EXCEPT ![NextQuery] = Rejected(UnableError)]
            /\ UNCHANGED <<listeners, timer>>
    /\ emitted' = <<>>
    /\ last' = Step("Commander", "getPowerState", <<>>, 0, FALSE, FALSE, NextQuery, ok, 0)
    /\ UNCHANGED <<deviceAddress, monitorMode, ready, build, lastIndex, isResolved, granted>>
    /\ parsed' = <<>>
    /\ UNCHANGED <<call, remoteVars, streamVars, childVars>>

\* The timers whose deadline has come.
Due == {q \in Queries : timer[q].state = "armed" /\ timer[q].remaining = 0}

\* Faulty variant of the timer's callback: it removes the listener and does
\* not reject.
TimeoutCallbackNoReject(q) ==
    /\ Due # {} /\ q = Min(Due)
    /\ timer' = [timer EXCEPT ![q] = [state |-> "fired", remaining |-> 0]]
    /\ listeners' = Off(listeners, ResponseEvent, q)
    /\ emitted' = <<>>
    /\ last' = Step("Commander", "timeout", <<>>, 0, FALSE, FALSE, q, FALSE, 0)
    /\ stdin' = <<>>
    /\ UNCHANGED <<deviceAddress, monitorMode, ready, build, lastIndex, isResolved, granted,
                   promise>>
    /\ parsed' = <<>>
    /\ UNCHANGED <<call, remoteVars, streamVars, childVars>>

\* The callback of the setTimeout of query q: off, then reject.
TimeoutCallback(q) ==
    /\ Due # {} /\ q = Min(Due)
    /\ timer' = [timer EXCEPT ![q] = [state |-> "fired", remaining |-> 0]]
    /\ listeners' = Off(listeners, ResponseEvent, q)
    /\ promise' = [promise EXCEPT ![q] = Reject(promise[q], TimeoutError)]
    /\ emitted' = <<>>
    /\ last' = Step("Commander", "timeout", <<>>, 0, FALSE, FALSE, q, FALSE, 0)
    /\ stdin' = <<>>
    /\ UNCHANGED <<deviceAddress, monitorMode, ready, build, lastIndex, isResolved, granted>>
    /\ parsed' = <<>>
    /\ UNCHANGED <<call, remoteVars, streamVars, childVars>>

\* Time passes: every armed timer comes TickMs closer to its deadline.  A
\* timer that is due runs before more time passes.
Tick ==
    /\ \E q \in Queries : timer[q].state = "armed"
    /\ Due = {}
    /\ timer' = [q \in Queries |->
                    IF timer[q].state = "armed"
                    THEN [timer[q] EXCEPT !.remaining =
                             IF @ > TickMs THEN @ - TickMs ELSE 0]
                    ELSE timer[q]]
    /\ emitted' = <<>>
    /\ last' = Step("Commander", "tick", <<>>, 0, FALSE, FALSE, 0, FALSE, 0)
    /\ stdin' = <<>>
    /\ UNCHANGED <<deviceAddress, monitorMode, ready, build, lastIndex, listeners, promise,
                   isResolved, granted>>
    /\ parsed' = <<>>
    /\ UNCHANGED <<call, remoteVars, streamVars, childVars>>

(***************************************************************************)
(* CecMonitor: sending operations.  ok is what client.stdin.write returns.  *)
(***************************************************************************)
\* The opcodes, parameter bytes, integers and strings (as UTF-16 code units:
\* A, y-diaeresis, A-macron, the euro sign) that operations are called with.
SendOpcodes == {0, 54, 255}
Bytes == {0, 16, 255}
ParamLists == UNION {[1..n -> Bytes] : n \in 0..MaxParams}
IntegerParams == {0, 1, 255, 256, 65535, 1193046, 16777215, 16777216, 16777217,
                  2147483647, -1, -256}
CodeUnits == {65, 255, 256, 8364}
StringParams == UNION {[1..n -> CodeUnits] : n \in 0..MaxText}
\* The addresses a monitor that sends is constructed with.
SourceAddresses == {RECORDINGDEVICE1, 11, 15}

\* The arguments of a call, and what each write it made returned.
Call(target, opcode, params, param, writes) ==
    [target |-> target, opcode |-> opcode, params |-> params, param |-> param,
     writes |-> writes]

\* The texts send is called with, and the numbers sendCommand is called with.
SendMessages == {<<>>, <<"a", "s">>, <<"t", "x", " ", "1", "0", ":", "3", "6">>}
Commands == {<<>>, <<16, 54>>, <<255, 0, 300>>}

\* The text sendCommand(...command) hands to send.
SendCommandText(command) ==
    <<"t", "x", " ">> \o Join([i \in 1..Len(command) |-> ToString16(command[i])], <<":">>)

\* CecMonitor.send(message), the write returning ok.
Send(message, ok) ==
    /\ stdin' = <<SendText(message)>>
    /\ call' = Call(0, 0, <<>>, message, <<ok>>)
    /\ last' = Step("CecMonitor", "send", message, 0, FALSE, ok, 0, ok, 0)
    /\ emitted' = <<>>
    /\ parsed' = <<>>
    /\ UNCHANGED <<deviceAddress, monitorMode, ready, build, lastIndex, listeners, promise,
                   isResolved, timer, granted, remoteVars, streamVars, childVars>>

\* CecMonitor.sendCommand(...command)
SendCommand(command, ok) ==
    /\ stdin' = <<SendText(SendCommandText(command))>>
    /\ call' = Call(0, 0, command, <<>>, <<ok>>)
    /\ last' = Step("CecMonitor", "sendCommand", <<>>, 0, FALSE, ok, 0, ok, 0)
    /\ emitted' = <<>>
    /\ parsed' = <<>>
    /\ UNCHANGED <<deviceAddress, monitorMode, ready, build, lastIndex, listeners, promise,
                   isResolved, timer, granted, remoteVars, streamVars, childVars>>

\* CecMonitor.executeOperation(target, opcode, params); an absent params and
\* an empty one take the same branch.
ExecuteOperation(target, opcode, params, ok) ==
    /\ stdin' = <<SendText(ExecuteOperationText(deviceAddress, target, opcode, params))>>
    /\ call' = Call(target, opcode, params, <<>>, <<ok>>)
    /\ last' = Step("CecMonitor", "executeOperation", <<>>, 0, FALSE, ok, 0, ok, 0)
    /\ emitted' = <<>>
    /\ parsed' = <<>>
    /\ UNCHANGED <<deviceAddress, monitorMode, ready, build, lastIndex, listeners, promise,
                   isResolved, timer, granted, remoteVars, streamVars, childVars>>

\* CecMonitor.executeOperationWithInteger(target, opcode, param)
ExecuteOperationWithInteger(target, opcode, param, ok) ==
    /\ stdin' = <<SendText(ExecuteOperationText(deviceAddress, target, opcode,
                                                IntegerBytes(param)))>>
    /\ call' = Call(target, opcode, IntegerBytes(param), <<param>>, <<ok>>)
    /\ last' = Step("CecMonitor", "executeOperationWithInteger", <<>>, 0, FALSE, ok,
                    0, ok, 0)
    /\ emitted' = <<>>
    /\ parsed' = <<>>
    /\ UNCHANGED <<deviceAddress, monitorMode, ready, build, lastIndex, listeners, promise,
                   isResolved, timer, granted, remoteVars, streamVars, childVars>>

\* CecMonitor.executeOperationWithString(target, opcode, param)
ExecuteOperationWithString(target, opcode, param, ok) ==
    /\ stdin' = <<SendText(ExecuteOperationText(deviceAddress, target, opcode,
                                                StringBytes(param)))>>
    /\ call' = Call(target, opcode, StringBytes(param), param, <<ok>>)
    /\ last' = Step("CecMonitor", "executeOperationWithString", <<>>, 0, FALSE, ok,
                    0, ok, 0)
    /\ emitted' = <<>>
    /\ parsed' = <<>>
    /\ UNCHANGED <<deviceAddress, monitorMode, ready, build, lastIndex, listeners, promise,
                   isResolved, timer, granted, remoteVars, streamVars, childVars>>

\* CecMonitor.processTraffic(traffic), the callback of the TRAFFIC handler
\* entry, with what it calls: processPacket and the listeners of its events.
ProcessTraffic(traffic) ==
    LET packet == ParsedPacket(traffic)
        r == ProcessPacket(packet, monitorMode, deviceAddress, build)
        hit == Called(listeners, r.events)
        fns == {listeners[i].fn : i \in hit}
        pkt(q) == CalledWith(listeners[CHOOSE i \in hit : listeners[i].fn = q], r.events)
    IN  /\ parsed' = <<packet>>
        /\ emitted' = r.events
        /\ listeners' = AfterEmit(listeners, r.events)
        /\ promise' = [q \in Queries |->
                          IF q \in fns THEN ResolverFunction(promise[q], pkt(q))
                          ELSE promise[q]]
        /\ isResolved' = [q \in Queries |-> isResolved[q] \/ q \in fns]
        /\ last' = Ended(Step("CecMonitor", "processTraffic", traffic, 0, TRUE, r.ret,
                              0, FALSE, Cardinality(hit)),
                         r.threw)
        /\ stdin' = <<>>
        /\ UNCHANGED <<deviceAddress, monitorMode, ready, build, lastIndex, timer, granted,
                       call, remoteVars, streamVars, childVars>>

(***************************************************************************)
(* Commander: pressButton.                                                 *)
(***************************************************************************)
\* The buttons pressButton is called with: select, up, volume up.
Buttons == {0, 1, 65}

\* The lines pressButton writes: the press, and the release when the write of
\* the press returned true.
PressButtonWrites(address, button, target, okPressed) ==
    <<SendText(ExecuteOperationText(address, target, Opcode("USER_CONTROL_PRESSED"),
                                    <<button>>))>>
    \o IF okPressed
       THEN <<SendText(ExecuteOperationText(address, target,
                                            Opcode("USER_CONTROL_RELEASE"), <<>>))>>
       ELSE <<>>

\* Faulty variant of pressButton: the release is sent whatever the press returned.
PressButtonAlwaysReleases(button, target, okPressed, okRelease) ==
    /\ stdin' = PressButtonWrites(deviceAddress, button, target, TRUE)
    /\ call' = Call(target, Opcode("USER_CONTROL_PRESSED"), <<button>>, <<>>,
                    <<okPressed, okRelease>>)
    /\ last' = Step("Commander", "pressButton", <<>>, 0, FALSE, okPressed /\ okRelease,
                    0, okPressed, 0)
    /\ emitted' = <<>>
    /\ parsed' = <<>>
    /\ UNCHANGED <<deviceAddress, monitorMode, ready, build, lastIndex, listeners, promise,
                   isResolved, timer, granted, remoteVars, streamVars, childVars>>

\* Commander.pressButton(button, target), the two writes returning okPressed
\* and okRelease.
PressButton(button, target, okPressed, okRelease) ==
    /\ stdin' = PressButtonWrites(deviceAddress, button, target, okPressed)
    /\ call' = Call(target, Opcode("USER_CONTROL_PRESSED"), <<button>>, <<>>,
                    IF okPressed THEN <<okPressed, okRelease>> ELSE <<okPressed>>)
    /\ last' = Step("Commander", "pressButton", <<>>, 0, FALSE, okPressed /\ okRelease,
                    0, okPressed, 0)
    /\ emitted' = <<>>
    /\ parsed' = <<>>
    /\ UNCHANGED <<deviceAddress, monitorMode, ready, build, lastIndex, listeners, promise,
                   isResolved, timer, granted, remoteVars, streamVars, childVars>>

(***************************************************************************)
(* emitLines: the `data` and `end` listeners it adds to a stream.  The      *)
(* `line` events are recorded as the stream emits them.                    *)
(***************************************************************************)
RECURSIVE ExtractLines(_)
\* The loop `while (~n)` of the `data` listener on a backlog: the lines it
\* emits, in order, and the backlog it leaves.  (~n is 0 only for n = -1.)
ExtractLines(text) ==
    LET n == IndexOf(text, <<"\n">>)
    IN  IF n = -1 THEN [lines |-> <<>>, backlog |-> text]
        ELSE LET rest == ExtractLines(Substr(text, n + 1))
             IN  [lines |-> <<SubSeq(text, 1, n)>> \o rest.lines,
                  backlog |-> rest.backlog]

RECURSIVE Unread(_, _, _)
\* The backlog a throwing listener leaves: the text from the start of line k
\* of ls on (the line is cut off the backlog after its event only).
Unread(text, ls, k) ==
    IF k <= 1 THEN text ELSE Unread(Substr(text, Len(ls[1]) + 1), Tail(ls), k - 1)

\* The stream emits `data` with its next n characters: the `data` listener
\* of emitLines emits a `line` for each line the backlog now holds, and each
\* `line` runs the monitor's listener before the loop goes on.
Data(n) ==
    /\ ~ended
    /\ delivered + n <= Len(stream)
    /\ \E r \in {ExtractLines(backlog \o SubSeq(stream, delivered + 1, delivered + n))} :
       \E m \in {RunLines(Monitor, r.lines)} :
           /\ backlog' = IF m.threw
                         THEN Unread(backlog \o SubSeq(stream, delivered + 1, delivered + n),
                                     r.lines, m.done)
                         ELSE r.backlog
           /\ lines' = lines \o SubSeq(r.lines, 1, m.done)
           /\ last' = Ended(Step("stream", "data",
                                 SubSeq(stream, delivered + 1, delivered + n),
                                 0, FALSE, FALSE, 0, FALSE, m.done),
                            m.threw)
           /\ MonitorBecomes(m)
    /\ delivered' = delivered + n
    /\ stdin' = <<>>
    /\ UNCHANGED <<monitorMode, ready, build, timer, call, stdinHandlers, stream, ended,
                   childVars>>

\* The stream emits `end`, after its last `data`: a backlog that is not
\* empty is emitted as a `line`, which runs the monitor's listener.
End ==
    /\ ~ended
    /\ delivered = Len(stream)
    /\ ended' = TRUE
    /\ \E m \in {RunLines(Monitor, IF backlog # <<>> THEN <<backlog>> ELSE <<>>)} :
           /\ lines' = IF backlog # <<>> THEN Append(lines, backlog) ELSE lines
           /\ last' = Ended(Step("stream", "end", backlog, 0, FALSE, FALSE, 0, FALSE,
                                 m.done),
                            m.threw)
           /\ MonitorBecomes(m)
    /\ stdin' = <<>>
    /\ UNCHANGED <<monitorMode, ready, build, timer, call, stdinHandlers, stream,
                   delivered, backlog, childVars>>

(***************************************************************************)
(* Remote: construction over a monitor.                                    *)
(***************************************************************************)
\* new Remote(monitor): it pushes its two entries onto the monitor's
\* stdinHandlers, after those of the Remotes constructed over the monitor
\* before, which stay as they are.
NewRemote ==
    /\ Len(stdinHandlers) < Len(MonitorHandlers) + 2 * MaxRemotes
    /\ stdinHandlers' = stdinHandlers \o <<"keyDown", "keyUp">>
    /\ formerRemotes' =
          IF stdinHandlers = MonitorHandlers THEN formerRemotes
          ELSE Append(formerRemotes,
                      [remote |-> [previousKey |-> previousKey,
                                   previousKeyCode |-> previousKeyCode,
                                   currentKey |-> currentKey,
                                   currentKeyCode |-> currentKeyCode],
                       remoteEmitted |-> remoteEmitted])
    /\ previousKey' = NewRemoteFields.previousKey
    /\ previousKeyCode' = NewRemoteFields.previousKeyCode
    /\ currentKey' = NewRemoteFields.currentKey
    /\ currentKeyCode' = NewRemoteFields.currentKeyCode
    /\ remoteEmitted' = <<>>
    /\ emitted' = <<>>
    /\ last' = Step("Remote", "new", <<>>, 0, FALSE, FALSE, 0, FALSE, 0)
    /\ stdin' = <<>>
    /\ UNCHANGED <<deviceAddress, monitorMode, ready, build, lastIndex, listeners, promise,
                   isResolved, timer, granted, call, streamVars, childVars>>
    /\ parsed' = <<>>

(***************************************************************************)
(* CecMonitor: stop, and the close of the child process.                   *)
(***************************************************************************)
\* CecMonitor.stop(): emit `stop` on the monitor, then client.kill('SIGINT').
Stop ==
    /\ emitted' = <<Event(<<"stop">>, <<>>, <<>>)>>
    /\ client' = IF client = "running" THEN "killed" ELSE client
    /\ last' = Step("CecMonitor", "stop", <<>>, 0, FALSE, FALSE, 0, FALSE,
                    Cardinality(Called(listeners, emitted')))
    /\ stdin' = <<>>
    /\ parsed' = <<>>
    /\ UNCHANGED <<deviceAddress, monitorMode, ready, build, lastIndex, listeners, promise,
                   isResolved, timer, granted, call, remoteVars, streamVars,
                   clientEmitted, nodeCecVars>>

\* The child process emits `close`, killed or of its own accord.  start has
\* registered this.onClose itself as the listener, so the child process is
\* the `this` of the call and this.emit('stop', this) is the child's emit.
OnClose ==
    /\ client \in {"running", "killed"}
    /\ client' = "closed"
    /\ clientEmitted' = Append(clientEmitted, Event(<<"stop">>, <<>>, <<>>))
    /\ emitted' = <<>>
    /\ last' = Step("ChildProcess", "onClose", <<>>, 0, FALSE, FALSE, 0, FALSE, 0)
    /\ stdin' = <<>>
    /\ parsed' = <<>>
    /\ UNCHANGED <<deviceAddress, monitorMode, ready, build, lastIndex, listeners, promise,
                   isResolved, timer, granted, call, remoteVars, streamVars,
                   nodeCecVars>>

(***************************************************************************)
(* NodeCec: start, stop, the close of its child process, send and          *)
(* sendCommand.                                                            *)
(***************************************************************************)
\* NodeCec.start(): a child process is spawned and becomes this.client, and
\* the `line` listener and this.onClose are registered on it.  A child
\* spawned by an earlier start() is no longer referred to by the NodeCec, and
\* keeps its process and its listeners.
NodeCecStart ==
    /\ Len(nodeCecFormer) + Bool2Nat(nodeCecClient # "none") < MaxStarts
    /\ nodeCecFormer' = IF nodeCecClient = "none" THEN nodeCecFormer
                        ELSE Append(nodeCecFormer, nodeCecClient)
    /\ nodeCecClient' = "running"
    /\ emitted' = <<>>
    /\ last' = Step("NodeCec", "start", <<>>, 0, FALSE, FALSE, 0, FALSE, 0)
    /\ stdin' = <<>>
    /\ parsed' = <<>>
    /\ UNCHANGED <<deviceAddress, monitorMode, ready, build, lastIndex, listeners, promise,
                   isResolved, timer, granted, call, remoteVars, streamVars, client,
                   clientEmitted, nodeCecClientEmitted>>

\* NodeCec.stop(): emit `stop` on the NodeCec, then return
\* client.kill('SIGINT'), this.client being the child spawned last: a
\* TypeError where no child was spawned, true for a child that is alive (the
\* signal is sent), false for a child that has exited, whether or not it has
\* emitted `close` yet.
NodeCecStop ==
    /\ emitted' = <<Event(<<"stop">>, <<>>, <<>>)>>
    /\ nodeCecClient' = IF nodeCecClient = "running" THEN "killed" ELSE nodeCecClient
    /\ last' = Ended(Step("NodeCec", "stop", <<>>, 0, FALSE,
                          nodeCecClient \in {"running", "killed"}, 0, FALSE, 0),
                     nodeCecClient = "none")
    /\ stdin' = <<>>
    /\ parsed' = <<>>
    /\ UNCHANGED <<deviceAddress, monitorMode, ready, build, lastIndex, listeners, promise,
                   isResolved, timer, granted, call, remoteVars, streamVars, client,
                   clientEmitted, nodeCecFormer,
                   nodeCecClientEmitted>>

\* A child process of the NodeCec exits, killed or of its own accord; its
\* `close` follows when its streams have closed.  (`exit` has no listener.)
\* Child 0 is this.client, child i > 0 the i-th of the children spawned
\* before it.
NodeCecExit(child) ==
    /\ child <= Len(nodeCecFormer)
    /\ (IF child = 0 THEN nodeCecClient ELSE nodeCecFormer[child]) \in {"running", "killed"}
    /\ nodeCecClient' = IF child = 0 THEN "exited" ELSE nodeCecClient
    /\ nodeCecFormer' = IF child = 0 THEN nodeCecFormer
                        ELSE [nodeCecFormer EXCEPT ![child] = "exited"]
    /\ emitted' = <<>>
    /\ last' = Step("NodeCecChildProcess", "exit", <<>>, 0, FALSE, FALSE, 0, FALSE, 0)
    /\ stdin' = <<>>
    /\ parsed' = <<>>
    /\ UNCHANGED <<deviceAddress, monitorMode, ready, build, lastIndex, listeners, promise,
                   isResolved, timer, granted, call, remoteVars, streamVars, client,
                   clientEmitted, nodeCecClientEmitted>>

\* A child process of the NodeCec, having exited, emits `close`: the listener
\* is this.onClose itself, so this.emit('stop', this) is the child's emit.
NodeCecOnClose(child) ==
    /\ child <= Len(nodeCecFormer)
    /\ (IF child = 0 THEN nodeCecClient ELSE nodeCecFormer[child]) = "exited"
    /\ nodeCecClient' = IF child = 0 THEN "closed" ELSE nodeCecClient
    /\ nodeCecFormer' = IF child = 0 THEN nodeCecFormer
                        ELSE [nodeCecFormer EXCEPT ![child] = "closed"]
    /\ nodeCecClientEmitted' = Append(nodeCecClientEmitted, Event(<<"stop">>, <<>>, <<>>))
    /\ emitted' = <<>>
    /\ last' = Step("NodeCecChildProcess", "onClose", <<>>, 0, FALSE, FALSE, 0, FALSE, 0)
    /\ stdin' = <<>>
    /\ parsed' = <<>>
    /\ UNCHANGED <<deviceAddress, monitorMode, ready, build, lastIndex, listeners, promise,
                   isResolved, timer, granted, call, remoteVars, streamVars, client,
                   clientEmitted>>

\* NodeCec.send(message), the write returning ok: a TypeError where no child
\* was spawned.
NodeCecSend(message, ok) ==
    /\ stdin' = IF nodeCecClient = "none" THEN <<>> ELSE <<SendText(message)>>
    /\ last' = Ended(Step("NodeCec", "send", message, 0, FALSE,
                          nodeCecClient # "none" /\ ok, 0,
                          nodeCecClient # "none" /\ ok, 0),
                     nodeCecClient = "none")
    /\ emitted' = <<>>
    /\ parsed' = <<>>
    /\ UNCHANGED <<deviceAddress, monitorMode, ready, build, lastIndex, listeners, promise,
                   isResolved, timer, granted, call, remoteVars, streamVars, childVars>>

\* NodeCec.sendCommand(...command)
NodeCecSendCommand(command, ok) ==
    /\ stdin' = IF nodeCecClient = "none" THEN <<>>
                ELSE <<SendText(SendCommandText(command))>>
    /\ last' = Ended(Step("NodeCec", "sendCommand", <<>>, 0, FALSE,
                          nodeCecClient # "none" /\ ok, 0,
                          nodeCecClient # "none" /\ ok, 0),
                     nodeCecClient = "none")
    /\ emitted' = <<>>
    /\ parsed' = <<>>
    /\ UNCHANGED <<deviceAddress, monitorMode, ready, build, lastIndex, listeners, promise,
                   isResolved, timer, granted, call, remoteVars, streamVars, childVars>>

(***************************************************************************)
(* Specifications.                                                         *)
(***************************************************************************)
\* Queries under way while lines arrive.
Next ==
    \/ \E line \in QueryLines : ProcessLine(line)
    \/ \E target \in Targets, ok \in BOOLEAN : GetPowerState(target, ok)
    \/ \E q \in Queries : TimeoutCallback(q)
    \/ Tick

Spec == Init /\ [][Next]_vars

\* The event loop runs a due timer, and time does not stop.
FairSpec == Spec /\ WF_vars(Tick) /\ WF_vars(\E q \in Queries : TimeoutCallback(q))

\* The line engines on every line of the model, no query under way.
NextLine ==
    \/ \E line \in Lines : ProcessLine(line)
    \/ \E line \in Lines : NodeCecProcessLine(line)
    \/ \E line \in DirectLines : SetDeviceAddress(line)
    \/ \E mode \in BOOLEAN : SetMonitorMode(mode)

LineSpec == Init /\ [][NextLine]_vars

\* Remotes over the monitor, and the key lines the adapter writes.
NextRemote ==
    \/ NewRemote
    \* the key lines decoded so far, counted once for each Remote that
    \* decoded them
    \/ \E line \in KeyLines :
          /\ Len(remoteEmitted)
             + Cardinality({p \in (1..MaxRemotes) \X (1..MaxKeyLines) :
                               /\ p[1] <= Len(formerRemotes)
                               /\ p[2] <= Len(formerRemotes[p[1]].remoteEmitted)})
             < MaxKeyLines
          /\ ProcessLine(line)

RemoteSpec == Init /\ [][NextRemote]_vars

\* A monitor that is told its granted address, then sends one operation and is
\* handed back the text it wrote.
SendInit ==
    \E address \in SourceAddresses :
        NewMonitor(address, FALSE) /\ NewStream(<<>>) /\ NewNodeCec(TRUE)

NextSend ==
    \/ \E target \in LogicalAddress, opcode \in SendOpcodes, params \in ParamLists,
          ok \in BOOLEAN :
          call = NoCall /\ ExecuteOperation(target, opcode, params, ok)
    \/ \E target \in Targets, param \in IntegerParams, ok \in BOOLEAN :
          /\ call = NoCall
          /\ ExecuteOperationWithInteger(target, Opcode("ROUTING_CHANGE"), param, ok)
    \/ \E target \in Targets, param \in StringParams, ok \in BOOLEAN :
          /\ call = NoCall
          /\ ExecuteOperationWithString(target, Opcode("SET_OSD_NAME"), param, ok)
    \/ \E message \in SendMessages, ok \in BOOLEAN : call = NoCall /\ Send(message, ok)
    \/ \E command \in Commands, ok \in BOOLEAN : call = NoCall /\ SendCommand(command, ok)
    \/ \E i \in DOMAIN stdin : ProcessTraffic(WireLine(stdin[i]))
    \/ call = NoCall /\ ProcessLine(GrantLine("4"))

SendSpec == SendInit /\ [][NextSend]_vars

\* Buttons pressed while queries are under way.
NextButton ==
    \/ \E target \in Targets, ok \in BOOLEAN : GetPowerState(target, ok)
    \/ \E button \in Buttons, target \in Targets, okPressed \in BOOLEAN,
          okRelease \in BOOLEAN : PressButton(button, target, okPressed, okRelease)

ButtonSpec == Init /\ [][NextButton]_vars

\* emitLines on a stream that carries any text of the model, cut into any
\* chunks.
StreamInit ==
    \E text \in Streams \cup {ReportStream} :
        NewMonitor(RECORDINGDEVICE1, FALSE) /\ NewStream(text) /\ NewNodeCec(TRUE)

NextStream ==
    \/ \E n \in 1..MaxStream : Data(n)
    \/ End

StreamSpec == StreamInit /\ [][NextStream]_vars

\* A monitor that is stopped by its owner or loses its child process; the
\* child writes lines until it has closed.
NextStop ==
    \/ \E line \in Lines : client # "closed" /\ ProcessLine(line)
    \/ Stop
    \/ OnClose

StopSpec == Init /\ [][NextStop]_vars

\* A monitor, with or without a Remote over it, that is handed lines for each
\* of its handler entries.
NextDispatch ==
    \/ NewRemote
    \/ \E line \in DispatchLines :
          /\ Len(remoteEmitted)
             + Cardinality({p \in (1..MaxRemotes) \X (1..MaxKeyLines) :
                               /\ p[1] <= Len(formerRemotes)
                               /\ p[2] <= Len(formerRemotes[p[1]].remoteEmitted)})
             < MaxKeyLines
          /\ ProcessLine(line)

DispatchSpec == Init /\ [][NextDispatch]_vars

\* A NodeCec from its construction: started, written to, handed lines,
\* stopped by its owner, and losing its child process.
NodeCecInit ==
    \E address \in InitAddresses :
        NewMonitor(address, FALSE) /\ NewStream(<<>>) /\ NewNodeCec(FALSE)

NextNodeCec ==
    \/ NodeCecStart
    \/ NodeCecStop
    \/ \E child \in 0..(MaxStarts - 1) : NodeCecExit(child)
    \/ \E child \in 0..(MaxStarts - 1) : NodeCecOnClose(child)
    \/ \E message \in SendMessages, ok \in BOOLEAN : NodeCecSend(message, ok)
    \/ \E command \in Commands, ok \in BOOLEAN : NodeCecSendCommand(command, ok)
    \/ \E line \in DispatchLines : NodeCecProcessLine(line)
    \/ \E line \in DispatchLines : NodeCecLineListener(line)

NodeCecSpec == NodeCecInit /\ [][NextNodeCec]_vars


(***************************************************************************)
(* Properties.                                                             *)
(***************************************************************************)
Settled(q) == promise[q].state \in {"resolved", "rejected"}
Pending == {q \in Queries : promise[q].state = "pending"}
ListenersOf(q) == {i \in DOMAIN listeners : listeners[i].fn = q}

\* The names of the events of a step, in order.
Names(events) == [i \in 1..Len(events) |-> events[i].name]
\* The events of a step that processPacket emitted.
PacketEvents(events) ==
    SelectSeq(events, LAMBDA e : e.name \notin {<<"data">>, <<"line">>, <<"ready">>})
\* The semantic events among them: opcode-specific ones and op.<NAME>.
SemanticEvents(events) ==
    SelectSeq(PacketEvents(events),
              LAMBDA e : e.name \notin {<<"packet">>, <<"polling">>, <<"POLLING">>})
HasEvent(events, name) == \E i \in DOMAIN events : events[i].name = name

\* The last step handed a traffic line to a line engine.
\* The two numbers are the same value; NaN is the same value as NaN.
SameNumber(a, b) == ToString(a) = ToString(b)
\* The two lists of numbers have the same values in the same order.
SameNumbers(s, t) == Len(s) = Len(t) /\ \A i \in DOMAIN s : SameNumber(s[i], t[i])
\* The two packets have the same tokens, addresses, opcode and argument bytes.
SamePacket(p, q) ==
    /\ p.tokens = q.tokens
    /\ SameNumber(p.source, q.source) /\ SameNumber(p.target, q.target)
    /\ SameNumber(p.opcode, q.opcode) /\ SameNumbers(p.args, q.args)
\* The two key events have the same fields with the same values.
SameKeyEvent(e, f) ==
    /\ DOMAIN e = DOMAIN f
    /\ e.name = f.name /\ e.key = f.key /\ SameNumber(e.keyCode, f.keyCode)
    /\ "repeat" \in DOMAIN e => e.repeat = f.repeat
\* The two batches hold the same key events in the same order.
SameBatch(b, c) == Len(b) = Len(c) /\ \A i \in DOMAIN b : SameKeyEvent(b[i], c[i])
\* The two logs hold the same batches in the same order.
SameLog(l, m) == Len(l) = Len(m) /\ \A i \in DOMAIN l : SameBatch(l[i], m[i])
\* The sum a * 256 + b of two numbers, NaN when one of them is NaN.
Times256Plus(a, b) == IF IsNaN(a) \/ IsNaN(b) THEN NaN ELSE a * 256 + b
LastIsTraffic == last.op = "processLine" /\ LineFacts[last.line].isTraffic
\* The packet decoded by the monitor in the last step.
LastPacket == LineFacts[last.line].packet[1]
\* The step now taken hands a REPORT_POWER_STATUS packet with an argument byte,
\* addressed to the given address, to the monitor.
PowerReportTo(step, address) ==
    /\ step.obj = "CecMonitor" /\ step.op = "processLine"
    /\ LineFacts[step.line].isTraffic
    /\ LET p == LineFacts[step.line].packet[1]
       IN  /\ Len(p.tokens) > 1
           /\ StrictEq(p.opcode, 144)
           /\ Len(p.args) >= 1
           /\ StrictEq(p.target, address)

\* C1: every query whose request was sent is settled exactly once: a pending
\* query is eventually resolved or rejected, a settled promise never changes
\* again whichever path runs later, a resolved query is one whose listener
\* was called and a query rejected for the deadline is one whose timer ran.
C1_SettledExactlyOnce ==
    /\ \A q \in Queries : (promise[q].state = "pending") ~> Settled(q)
    /\ [][\A q \in Queries : Settled(q) => promise'[q] = promise[q]]_vars
    /\ [](\A q \in Queries :
            /\ promise[q].state = "resolved" => isResolved[q]
            /\ promise[q].error = TimeoutError => timer[q].state = "fired")

\* A query was resolved by an event and its timer ran afterwards.
C1_Witness ==
    \E q \in Queries :
        /\ promise[q].state = "resolved"
        /\ timer[q].state = "fired"
        /\ last.op = "timeout" /\ last.q = q

\* C2: when the deadline fires before a matching event, the query is rejected
\* with the timeout error and its listener is removed: the resolver of a
\* rejected query is never called, and no settled query has a listener
\* registered.
C2_TimeoutRemovesListener ==
    \A q \in Queries :
        /\ (timer[q].state = "fired" /\ ~isResolved[q]) => promise[q] = Rejected(TimeoutError)
        /\ promise[q].state = "rejected" => ~isResolved[q]
        /\ Settled(q) => ListenersOf(q) = {}

\* A REPORT_POWER_STATUS event was emitted after a query had timed out.
C2_Witness ==
    \E q \in Queries :
        /\ promise[q] = Rejected(TimeoutError)
        /\ last.op = "processLine"
        /\ HasEvent(emitted, ResponseEvent)
        /\ ~isResolved[q]

\* C3: a pending query whose deadline has not come is resolved, with the
\* packet's first argument byte, by a REPORT_POWER_STATUS traffic line
\* addressed to the address the adapter granted to the local device.
C3_ReplyToGrantedAddressResolves ==
    [][\A q \in Queries :
          (/\ promise[q].state = "pending"
           /\ timer[q].state = "armed" /\ timer[q].remaining > 0
           /\ PowerReportTo(last', granted))
          => promise'[q] = [state |-> "resolved",
                            value |-> Defined(LineFacts[last'.line].packet[1].args[1]),
                            error |-> ""]]_vars

\* C4: when the send of the request fails, getPowerState rejects at once and
\* registers no listener and no timer: the listeners and the timers are
\* those of before.
C4_SendFailureRegistersNothing ==
    [][(last'.op = "getPowerState" /\ ~last'.ok)
       => /\ promise'[last'.q] = Rejected(UnableError)
          /\ listeners' = listeners
          /\ timer' = timer]_vars

\* A send failed while another query was waiting.
C4_Witness ==
    /\ last.op = "getPowerState" /\ ~last.ok
    /\ promise[last.q] = Rejected(UnableError)
    /\ timer[last.q].state = "idle"
    /\ listeners # <<>>

\* C5 as stated: with two or more queries pending, one matching event
\* resolves exactly one of them and the others stay pending.
C5_OneEventConsumesOneQuery ==
    [][(/\ Cardinality(Pending) >= 2
        /\ last'.op = "processLine"
        /\ HasEvent(emitted', ResponseEvent))
       => Cardinality({q \in Pending : promise'[q].state = "resolved"}) = 1]_vars

\* C5 amended: every pending query holds one one-shot subscription of its
\* own, and one matching event resolves every pending query with the event's
\* packet and removes every subscription.
C5_OneEventResolvesAllQueries ==
    /\ [](\A q \in Pending :
            /\ Cardinality(ListenersOf(q)) = 1
            /\ \A i \in ListenersOf(q) : listeners[i].once /\ listeners[i].event = ResponseEvent)
    /\ [][(last'.op = "processLine" /\ HasEvent(emitted', ResponseEvent))
          => /\ \A q \in Pending :
                   promise'[q] = [state |-> "resolved",
                                  value |-> PowerStateOf(LineFacts[last'.line].packet[1]),
                                  error |-> ""]
             /\ listeners' = <<>>
             /\ last'.listenersCalled = Len(listeners)]_vars

\* One event called the listeners of two queries.
C5_Witness ==
    /\ last.op = "processLine" /\ last.listenersCalled >= 2
    /\ \E q1, q2 \in Queries :
          /\ q1 # q2
          /\ promise[q1].state = "resolved" /\ promise[q2].state = "resolved"
          /\ promise[q1].value = promise[q2].value

\* C6: a grant line sets the monitor's device address to the granted address,
\* a value in 0..15; any other line leaves it as it was.
C6_GrantSetsDeviceAddress ==
    [][(last'.obj = "CecMonitor" /\ last'.op = "processLine")
       => IF LineFacts[last'.line].isGrant
          THEN deviceAddress' = GrantedBy(last'.line) /\ deviceAddress' \in 0..15
          ELSE deviceAddress' = deviceAddress]_vars

\* C7: a decoded non-polling packet is discarded without any emission and
\* with result false when monitor mode is off and the target is neither the
\* own address nor broadcast; otherwise `packet` is emitted.
C7_FilterDiscards ==
    (last.obj = "CecMonitor" /\ LastIsTraffic /\ Len(LastPacket.tokens) > 1)
    => IF /\ ~monitorMode
          /\ ~StrictEq(LastPacket.target, deviceAddress)
          /\ ~StrictEq(LastPacket.target, 15)
       THEN PacketEvents(emitted) = <<>> /\ last.ret = FALSE
       ELSE HasEvent(emitted, <<"packet">>)

\* A packet for another device was discarded.
C7_Witness ==
    /\ last.obj = "CecMonitor" /\ LastIsTraffic /\ Len(LastPacket.tokens) > 1
    /\ ~monitorMode /\ StrictEq(LastPacket.target, 5) /\ deviceAddress = 1
    /\ StrictEq(LastPacket.opcode, 144)
    /\ Names(emitted) = << <<"data">>, <<"line">> >>

\* C8: a one-token traffic line yields exactly one `polling` event with the
\* packet and no other packet event, on the CecMonitor and on the NodeCec,
\* whatever the monitor mode and the target.
C8_OneTokenYieldsPolling ==
    (LastIsTraffic /\ Len(TrafficTokens(last.line)) = 1)
    => /\ Names(PacketEvents(emitted)) = << <<"polling">> >>
       /\ PacketEvents(emitted)[1].pkt[1].tokens = TrafficTokens(last.line)

\* The opcode is a value of OperationCode.
Recognized(opcode) ==
    \E j \in DOMAIN OperationCode : StrictEq(OperationCode[j].value, opcode)
NameOf(opcode) ==
    OperationCode[CHOOSE j \in DOMAIN OperationCode :
                      StrictEq(OperationCode[j].value, opcode)].key
Specific == {"SET_OSD_NAME", "ROUTING_CHANGE", "ACTIVE_SOURCE", "REPORT_PHYSICAL_ADDRESS"}
\* The monitor accepted the packet of the last step: it emitted `packet`.
LastAccepted ==
    last.obj = "CecMonitor" /\ LastIsTraffic /\ HasEvent(emitted, <<"packet">>)

\* C9 as stated: every accepted packet with a recognized opcode yields the
\* event op.<NAME>.
C9_RecognizedOpcodeEmitsOp ==
    (LastAccepted /\ Recognized(LastPacket.opcode))
    => HasEvent(emitted, <<"op.", NameOf(LastPacket.opcode)>>)

\* C9 amended: every accepted packet with a recognized opcode other than
\* SET_OSD_NAME, ROUTING_CHANGE, ACTIVE_SOURCE and REPORT_PHYSICAL_ADDRESS
\* yields the event op.<NAME> with the packet and its argument bytes; these
\* four opcodes yield no op.<NAME> event.
C9_OtherRecognizedOpcodeEmitsOp ==
    (LastAccepted /\ Recognized(LastPacket.opcode))
    => LET name == NameOf(LastPacket.opcode)
       IN  IF name \in Specific
           THEN ~HasEvent(emitted, <<"op.", name>>)
           ELSE /\ Len(emitted) = 4
                /\ emitted[4].name = <<"op.", name>>
                /\ Len(emitted[4].pkt) = 1 /\ SamePacket(emitted[4].pkt[1], LastPacket)
                /\ SameNumbers(emitted[4].args, LastPacket.args)

\* A STANDBY packet yielded op.STANDBY.
C9_Witness ==
    /\ LastAccepted
    /\ StrictEq(LastPacket.opcode, 54)
    /\ HasEvent(emitted, <<"op.", "STANDBY">>)

\* The opcode-specific decoder of the packet has too few argument bytes.
TooFewArgs(p) ==
    \/ StrictEq(p.opcode, 71) /\ Len(p.args) = 0
    \/ StrictEq(p.opcode, 128) /\ Len(p.args) < 4
    \/ (StrictEq(p.opcode, 130) \/ StrictEq(p.opcode, 132)) /\ Len(p.args) < 2

\* C10: processPacket returns true exactly when it emitted a semantic event:
\* an accepted packet with an unrecognized opcode, or with too few argument
\* bytes for its decoder, yields `packet` alone and false; any other accepted
\* packet yields `packet`, then exactly one semantic event, and true.
C10_ReturnsTrueIffSemanticEvent ==
    (LastIsTraffic /\ last.called)
    => /\ ~last.threw
       /\ last.ret <=> SemanticEvents(emitted) # <<>>
       /\ HasEvent(emitted, <<"packet">>)
          => LET p == LineFacts[last.line].packet[1]
             IN  IF ~Recognized(p.opcode) \/ TooFewArgs(p)
                 THEN Names(PacketEvents(emitted)) = << <<"packet">> >> /\ ~last.ret
                 ELSE /\ Len(PacketEvents(emitted)) = 2
                      /\ PacketEvents(emitted)[1].name = <<"packet">>
                      /\ Len(SemanticEvents(emitted)) = 1
                      /\ last.ret

(***************************************************************************)
(* Properties of the Remote.                                               *)
(***************************************************************************)
RECURSIVE Flatten(_)
\* The events of a log of batches, in order.
Flatten(batches) ==
    IF batches = <<>> THEN <<>> ELSE batches[1] \o Flatten(Tail(batches))

\* A Remote is attached to the monitor.
RemoteAttached == HasHandler(stdinHandlers, "keyDown") /\ HasHandler(stdinHandlers, "keyUp")
\* The number a key's code text stands for.
KeyCodeOf(k) == ParseInt16(k[2])
\* The events the last decoded key line caused.
LastBatch == remoteEmitted[Len(remoteEmitted)]
\* The step now taken hands the line to the monitor.
Processes(step, line) == step.op = "processLine" /\ step.line = line

\* C16: from the Remote's initial state, a key-pressed line for key K with
\* (numeric) code c yields keydown(repeat=false); a key-released line for
\* the same K and c right after it yields keyup, keypress(repeat=false) and
\* keypress.<K>, in that order, and clears the held-key slot.
C16_PressThenReleaseYieldsKeypress ==
    [][\A k \in Keys :
          LET c == KeyCodeOf(k)
              keydown == <<KeyEvent(<<"keydown">>, FALSE, k[1], c)>>
          IN  (RemoteAttached /\ ~IsNaN(c))
              => /\ (remoteEmitted = <<>> /\ Processes(last', KeyPressedLine(k)))
                    => SameLog(remoteEmitted', <<keydown>>)
                 /\ (SameLog(remoteEmitted, <<keydown>>) /\ Processes(last', KeyReleasedLine(k)))
                    => /\ SameLog(remoteEmitted',
                               <<keydown,
                                 <<KeyUpEvent(k[1], c),
                                   KeyEvent(<<"keypress">>, FALSE, k[1], c),
                                   KeyEvent(<<"keypress.", k[1]>>, FALSE, k[1], c)>> >>)
                       /\ currentKey' = <<>>
                       /\ StrictEq(currentKeyCode', -1)]_vars

\* The key `exit` (code 0xd) was pressed and released on a new Remote.
C16_Witness ==
    /\ Len(remoteEmitted) = 2
    /\ Names(Flatten(remoteEmitted)) =
          << <<"keydown">>, <<"keyup">>, <<"keypress">>, <<"keypress.", <<"e", "x", "i", "t">> >> >>
    /\ StrictEq(LastBatch[2].keyCode, 13) /\ LastBatch[2].repeat = FALSE
    /\ currentKey = <<>> /\ StrictEq(currentKeyCode, -1)

\* The keypress events the Remote emitted, in order.
Keypresses == SelectSeq(Flatten(remoteEmitted), LAMBDA e : e.name = <<"keypress">>)

\* C17: a keypress event has repeat=true if and only if the keypress event
\* before it was of the same key.
C17_KeypressRepeatIffSameKeyAsPrevious ==
    \A i \in DOMAIN Keypresses :
        Keypresses[i].repeat <=> (i > 1 /\ Keypresses[i - 1].key = Keypresses[i].key)

\* C18: a key-released line whose code differs from the held key code yields
\* keyup alone and leaves the Remote's four key fields as they were.
C18_UnmatchedReleaseYieldsKeyupOnly ==
    [][\A k \in Keys :
          (/\ RemoteAttached
           /\ Processes(last', KeyReleasedLine(k))
           /\ ~StrictEq(currentKeyCode, KeyCodeOf(k)))
          => /\ SameLog(remoteEmitted',
                     Append(remoteEmitted, <<KeyUpEvent(k[1], KeyCodeOf(k))>>))
             /\ UNCHANGED <<previousKey, previousKeyCode, currentKey, currentKeyCode>>]_vars

\* `exit` was released while `up` (code 1) was held.
C18_Witness ==
    /\ RemoteAttached /\ Len(remoteEmitted) >= 2
    /\ SameBatch(LastBatch, <<KeyUpEvent(<<"e", "x", "i", "t">>, 13)>>)
    /\ currentKey = <<"u", "p">> /\ StrictEq(currentKeyCode, 1)

\* C19: every key-pressed line yields exactly one event, keydown, whose
\* repeat flag is true exactly when the held key name is the new key name;
\* afterwards previous holds the former current key and current the new key.
C19_KeydownRepeatIffHeldName ==
    [][\A k \in Keys :
          (RemoteAttached /\ Processes(last', KeyPressedLine(k)))
          => /\ SameLog(remoteEmitted',
                     Append(remoteEmitted,
                            <<KeyEvent(<<"keydown">>, currentKey = k[1], k[1], KeyCodeOf(k))>>))
             /\ previousKey' = currentKey
             /\ SameNumber(previousKeyCode', currentKeyCode)
             /\ currentKey' = k[1]
             /\ SameNumber(currentKeyCode', KeyCodeOf(k))]_vars

\* `up` was pressed again while held, this time reported with another code.
C19_Witness ==
    /\ RemoteAttached /\ Len(remoteEmitted) >= 2
    /\ SameBatch(LastBatch, <<KeyEvent(<<"keydown">>, TRUE, <<"u", "p">>, NaN)>>)
    /\ previousKey = <<"u", "p">> /\ StrictEq(previousKeyCode, 1)
    /\ currentKey = <<"u", "p">> /\ IsNaN(currentKeyCode)

(***************************************************************************)
(* Properties of emitLines.                                                *)
(***************************************************************************)
\* The lines of a whole text: the text split on "\n", without the empty
\* piece that follows a final "\n" (or that an empty text consists of).
ExpectedLines(text) ==
    LET parts == Split(text, "\n")
    IN  IF parts[Len(parts)] = <<>> THEN SubSeq(parts, 1, Len(parts) - 1) ELSE parts

\* C15: however the stream's text is cut into chunks, the lines emitted so
\* far are the terminated lines of the text delivered so far, in order, the
\* backlog is its unterminated tail, and after end-of-stream the lines are
\* the lines of the whole text, a non-empty tail last and once.
C15_ChunkingInvariance ==
    /\ ~ended => Append(lines, backlog) = Split(SubSeq(stream, 1, delivered), "\n")
    /\ ended => lines = ExpectedLines(stream)

(***************************************************************************)
(* Properties of the sending side.                                         *)
(***************************************************************************)
\* The tokens of a written line: the text after "tx ", split on ":".
WrittenTokens(written) == Split(Substr(WireLine(written), 3), ":")
LowerHexDigits == Digits \cup LowerHex
IsLowerHex(text) == text # <<>> /\ \A i \in DOMAIN text : text[i] \in LowerHexDigits

\* C11: with a source address and a target in 0..15, the text written by
\* executeOperation(T, O, args), handed to the traffic decoder, yields a packet
\* with that source, target T, opcode O and the argument bytes args, in
\* order ([] for no arguments).
C11_RoundTrip ==
    [][(/\ last.op = "executeOperation"
        /\ last'.op = "processTraffic"
        /\ deviceAddress \in 0..15
        /\ call.target \in 0..15)
       => /\ last'.line = WireLine(stdin[1])
          /\ Len(parsed') = 1
          /\ StrictEq(parsed'[1].source, deviceAddress)
          /\ StrictEq(parsed'[1].target, call.target)
          /\ StrictEq(parsed'[1].opcode, call.opcode)
          /\ SameNumbers(parsed'[1].args, call.params)]_vars

\* The text of executeOperation(BROADCAST, 255, [0, 255]) sent from address 11
\* was decoded.
C11_Witness ==
    /\ last.op = "processTraffic"
    /\ last.line = <<"t", "x", " ", "b", "f", ":", "f", "f", ":", "0", ":", "f", "f">>
    /\ deviceAddress = 11
    /\ call.target = BROADCAST /\ call.opcode = 255 /\ call.params = <<0, 255>>
    /\ StrictEq(parsed[1].source, 11) /\ StrictEq(parsed[1].target, 15)
    /\ SameNumbers(parsed[1].args, <<0, 255>>)

\* C12: in every state of the monitor and for every target of LogicalAddress,
\* the line executeOperation writes is `tx <s><t>:<opcode>[:<param>]*` with
\* <s> and <t> one lower-case hex digit each and the opcode and every
\* parameter lower-case hex.
C12_AddressesAreOneHexDigit ==
    last.op = "executeOperation"
    => LET tokens == WrittenTokens(stdin[1])
       IN  /\ SubSeq(stdin[1], 1, 3) = <<"t", "x", " ">>
           /\ Len(tokens[1]) = 2
           /\ IsLowerHex(tokens[1])
           /\ Len(tokens) = 2 + Len(call.params)
           /\ \A i \in 2..Len(tokens) : IsLowerHex(tokens[i])

\* C13: executeOperationWithInteger passes exactly three parameters, each in
\* 0..255, that are the low 24 bits of the input, most significant byte
\* first, and writes these three; 0x1000000 gives the bytes of 0.
C13_IntegerIsThreeBigEndianBytes ==
    last.op = "executeOperationWithInteger"
    => LET bytes == call.params
           n == call.param[1]
       IN  /\ Len(bytes) = 3
           /\ \A i \in 1..3 : bytes[i] \in 0..255
           /\ bytes[1] * 65536 + bytes[2] * 256 + bytes[3] = n % 16777216
           /\ n \in {0, 16777216} => bytes = <<0, 0, 0>>
           /\ Len(WrittenTokens(stdin[1])) = 5
           /\ \A i \in 1..3 : ParseInt16(WrittenTokens(stdin[1])[i + 2]) = bytes[i]

\* 0x1000001 was sent as the bytes 0, 0, 1.
C13_Witness ==
    /\ last.op = "executeOperationWithInteger"
    /\ call.param = <<16777217>>
    /\ call.params = <<0, 0, 1>>
    /\ WrittenTokens(stdin[1])[5] = <<"1">>

\* C14: executeOperationWithString passes one parameter per character of the
\* string, each a byte.
C14_StringParamsAreBytes ==
    last.op = "executeOperationWithString"
    => /\ Len(call.params) = Len(call.param)
       /\ \A i \in DOMAIN call.params : call.params[i] \in 0..255

\* C20: pressButton writes USER_CONTROL_PRESSED with the button code and,
\* when that write succeeded, USER_CONTROL_RELEASE to the same target, in
\* that order; it writes no release when the press failed; it returns true
\* exactly when both writes succeeded; and it awaits no reply: the
\* listeners, timers and promises are those of before.
C20_PressButtonSendsPressThenRelease ==
    [][last'.op = "pressButton"
       => LET target == call'.target
              button == call'.params[1]
              press == SendText(ExecuteOperationText(
                           deviceAddress, target, Opcode("USER_CONTROL_PRESSED"), <<button>>))
              release == SendText(ExecuteOperationText(
                             deviceAddress, target, Opcode("USER_CONTROL_RELEASE"), <<>>))
              writes == call'.writes
          IN  /\ stdin' = IF writes[1] THEN <<press, release>> ELSE <<press>>
              /\ Len(writes) = Len(stdin')
              /\ last'.ret <=> (\A i \in DOMAIN writes : writes[i]) /\ Len(writes) = 2
              /\ listeners' = listeners
              /\ timer' = timer
              /\ promise' = promise]_vars

\* The press of volume up to the audio system failed while a query was
\* waiting: one line was written and false returned.
C20_Witness ==
    /\ last.op = "pressButton" /\ ~last.ret
    /\ call.writes = <<FALSE>>
    /\ deviceAddress = 1
    /\ stdin = << <<"t", "x", " ", "1", "5", ":", "4", "4", ":", "4", "1", "\n">> >>
    /\ listeners # <<>>

(***************************************************************************)
(* The ready state.                                                        *)
(***************************************************************************)
\* C21: the monitor starts not ready, and once processLine has dispatched a
\* line that contains `waiting for input` it has emitted `ready` and its
\* field ready is true.
C21_ReadyAfterWaitingLine ==
    /\ last.op = "new" => ready = FALSE
    /\ (last.op = "processLine" /\ LineFacts[last.line].isReady) =>
          /\ HasEvent(emitted, <<"ready">>)
          /\ ready = TRUE

(***************************************************************************)
(* The loss of the child process.                                          *)
(***************************************************************************)
\* C22: whenever the child process has closed, the monitor itself has emitted
\* `stop`, as it does when its owner calls stop().
C22_CloseEmitsStopOnMonitor ==
    /\ last.op = "stop" => HasEvent(emitted, <<"stop">>)
    /\ last.op = "onClose" => HasEvent(emitted, <<"stop">>)

(***************************************************************************)
(* The deadline timers of the queries.                                     *)
(***************************************************************************)
\* C23: once an event has resolved a query its timer is cancelled: the armed
\* timers are exactly those of the pending queries, and the timeout callback
\* runs for no query that was settled before.
C23_ArmedTimersAreThoseOfPendingQueries ==
    /\ \A q \in Queries : timer[q].state = "armed" <=> promise[q].state = "pending"
    /\ Cardinality({q \in Queries : timer[q].state = "armed"}) = Cardinality(Pending)
    /\ last.op = "timeout" => promise[last.q].state = "rejected"

(***************************************************************************)
(* Short header tokens.                                                    *)
(***************************************************************************)
\* C24: a traffic line whose header token has fewer than 2 characters is
\* decoded into a packet whose source and target are 0, and whose opcode and
\* argument bytes are those of the tokens that follow, when there are any.
C24_ShortHeaderLeavesZero ==
    (parsed # <<>> /\ Len(parsed[1].tokens[1]) < 2) =>
        LET p == parsed[1]
        IN  /\ StrictEq(p.source, 0)
            /\ StrictEq(p.target, 0)
            /\ Len(p.tokens) > 1 =>
                  /\ SameNumber(p.opcode, ParseInt16(p.tokens[2]))
                  /\ SameNumbers(p.args,
                          [i \in 1..(Len(p.tokens) - 2) |-> ParseInt16(p.tokens[i + 2])])

(***************************************************************************)
(* The dispatch of a line to the handler entries.                          *)
(***************************************************************************)
\* The line matches the handler entry of that name.
EntryMatches(name, line) ==
    CASE name = "waiting for input" -> LineFacts[line].isReady
      [] name = "TRAFFIC" -> LineFacts[line].isTraffic
      [] name = "logicalAddressAssign" -> LineFacts[line].isGrant
      [] name = "keyDown" -> LineFacts[line].isKeyDown
      [] name = "keyUp" -> LineFacts[line].isKeyUp
\* The positions in an event list of the events of that name.
PositionsOf(events, name) == {i \in DOMAIN events : events[i].name = name}

\* C25: processLine emits one `line` event before anything else it causes,
\* runs the callback of every handler entry that matches the line, those a
\* Remote has appended included, in registration order, and returns the
\* number of callbacks it ran: 0, and no callback, for a line no entry
\* matches.
C25_ProcessLineRunsEveryMatchingEntry ==
    [][(last'.obj = "CecMonitor" /\ last'.op = "processLine") =>
        LET line == last'.line
            matching == {i \in DOMAIN stdinHandlers : EntryMatches(stdinHandlers[i], line)}
            ran(name) == \E i \in matching : stdinHandlers[i] = name
            batch == IF Len(remoteEmitted') = Len(remoteEmitted) + 1
                     THEN remoteEmitted'[Len(remoteEmitted')] ELSE <<>>
        IN  /\ ~last'.threw
            /\ Cardinality(PositionsOf(emitted', <<"line">>)) = 1
            /\ \A i \in DOMAIN emitted' :
                  emitted'[i].name \notin {<<"data">>, <<"line">>} =>
                      \A j \in PositionsOf(emitted', <<"line">>) : j < i
            /\ last'.executed = Cardinality(matching)
            /\ HasEvent(emitted', <<"ready">>) <=> ran("waiting for input")
            /\ last'.called <=> ran("TRAFFIC")
            /\ lastIndex' > 0 <=> ran("logicalAddressAssign")
            /\ HasEvent(batch, <<"keydown">>) <=> ran("keyDown")
            /\ HasEvent(batch, <<"keyup">>) <=> ran("keyUp")
            /\ \A i \in PositionsOf(emitted', <<"ready">>), j \in DOMAIN emitted' :
                  emitted'[j].name \notin {<<"data">>, <<"line">>, <<"ready">>} => i < j
            /\ matching = {} =>
                  /\ last'.executed = 0
                  /\ Names(emitted') = << <<"data">>, <<"line">> >>
                  /\ remoteEmitted' = remoteEmitted
                  /\ deviceAddress' = deviceAddress
       ]_vars

(***************************************************************************)
(* REPORT_PHYSICAL_ADDRESS.                                                *)
(***************************************************************************)
\* C26: every REPORT_PHYSICAL_ADDRESS event carries the physical address
\* args[0] * 256 + args[1] and a defined device type, the argument byte 2 of
\* its packet; an accepted packet of that opcode with 2 or more argument
\* bytes yields the event.
C26_PhysicalAddressCarriesDeviceType ==
    /\ \A i \in DOMAIN emitted :
          emitted[i].name = <<"REPORT_PHYSICAL_ADDRESS">> =>
              LET p == emitted[i].pkt[1]
              IN  /\ SameNumber(emitted[i].args[1], Times256Plus(p.args[1], p.args[2]))
                  /\ emitted[i].args[2] # Undefined
                  /\ Len(p.args) >= 3
                  /\ SameNumbers(emitted[i].args[2], Defined(p.args[3]))
    /\ (/\ last.obj = "CecMonitor" /\ LastIsTraffic
        /\ HasEvent(emitted, <<"packet">>)
        /\ StrictEq(LastPacket.opcode, Opcode("REPORT_PHYSICAL_ADDRESS"))
        /\ Len(LastPacket.args) >= 2)
       => HasEvent(emitted, <<"REPORT_PHYSICAL_ADDRESS">>)

(***************************************************************************)
(* The device a power report comes from.                                   *)
(***************************************************************************)
\* The last step was getPowerState(target) and its request was written.
Asked(target) ==
    /\ last.op = "getPowerState" /\ last.ok
    /\ stdin = <<SendText(ExecuteOperationText(
                   deviceAddress, target, Opcode("GIVE_DEVICE_POWER_STATUS"), <<>>))>>

\* C27: a line that resolves the pending query getPowerState(T) carries a
\* REPORT_POWER_STATUS packet whose source is T; a report from another device
\* leaves the query pending.
C27_ResolvedOnlyByQueriedTarget ==
    [][\A target \in Targets :
          (/\ Asked(target)
           /\ promise[last.q].state = "pending"
           /\ promise'[last.q].state = "resolved")
          => /\ parsed' # <<>>
             /\ StrictEq(parsed'[1].opcode, Opcode("REPORT_POWER_STATUS"))
             /\ StrictEq(parsed'[1].source, target)
      ]_vars

(***************************************************************************)
(* One keypress per keydown.                                               *)
(***************************************************************************)
\* Every event the Remote has emitted, in order.
KeyEvents == Flatten(remoteEmitted)
\* The positions of the keydown events before position i.
KeydownsBefore(i) == {j \in 1..(i - 1) : KeyEvents[j].name = <<"keydown">>}
Max(S) == CHOOSE x \in S : \A y \in S : y <= x

\* C28: a keypress event for key code c is emitted only when the most recent
\* keydown event was for code c and no keypress was emitted since that
\* keydown; so the keypress events never outnumber the keydown events.
C28_KeypressOnlyAfterItsKeydown ==
    /\ \A i \in DOMAIN KeyEvents :
          KeyEvents[i].name = <<"keypress">> =>
              /\ KeydownsBefore(i) # {}
              /\ LET j == Max(KeydownsBefore(i))
                 IN  /\ StrictEq(KeyEvents[j].keyCode, KeyEvents[i].keyCode)
                     /\ \A k \in (j + 1)..(i - 1) : KeyEvents[k].name # <<"keypress">>
    /\ Len(Keypresses) <= Cardinality(PositionsOf(KeyEvents, <<"keydown">>))

\* A key was pressed and released, which gave a keypress, and released once
\* more, which gave none.
C28_Witness ==
    /\ Len(remoteEmitted) >= 3
    /\ Len(Keypresses) = 1
    /\ Names(LastBatch) = << <<"keyup">> >>
    /\ StrictEq(LastBatch[1].keyCode, Keypresses[1].keyCode)
    /\ HasEvent(remoteEmitted[Len(remoteEmitted) - 1], <<"keypress">>)

=============================================================================
